---- MODULE Spec2Model ----
(***************************************************************************)
(* A model of the KPTV FAST Streams aggregator (src/app.py) and of the     *)
(* provider records it merges.                                             *)
(*                                                                         *)
(* Text that the code searches, trims or lower-cases (channel names,       *)
(* groups, filter patterns) is a sequence of one-character strings; text   *)
(* that it only copies (ids, URLs, logos) is a string.                     *)
(***************************************************************************)
EXTENDS Integers, Sequences, FiniteSets, TLC

VARIABLES
    filters,          \* self.channel_name_include, ..., self.group_exclude
    now,              \* time.time(), in ticks
    channels_cache,   \* self.channels_cache: dict, key 'all_channels'
    epg_cache,        \* self.epg_cache: dict, key 'all_epg'
    cache_expiry,     \* self.cache_expiry: dict, keys 'all_channels', 'all_epg'
    allowed,          \* the routes each client thread may request (fixed per run)
    pc,               \* where each thread stands in its handler
    route,            \* the route a thread is serving
    all_channels,     \* local of _get_all_channels_concurrent
    channel_number,   \* local of _get_all_channels_concurrent
    pending,          \* futures of the channel fan-out not yet yielded by as_completed
    chan_ret,         \* what _get_all_channels returned to the handler, or that it raised
    all_epg_data,     \* local of _get_all_epg_data
    epg_pending,      \* futures of the EPG fan-out not yet yielded by as_completed
    epg_ret,          \* what _get_all_epg_data returned to the handler
    response,         \* the flask Response of the request
    g_log,            \* history: the provider results of the running cycle, in completion order
    g_check,          \* history: the last cache validity test of each thread
    g_installed,      \* history: when each cache entry was installed
    g_preclear,       \* history: /refresh threads that cleared after a thread's fan-out began
    g_entry_pre,      \* history: g_preclear of the fan-out that produced each cache entry
    g_got_pre,        \* history: g_preclear of the fan-outs behind a request's results
    pl_pc,            \* pipeline harness: which step of lines 421-425 / get_playlist is next
    pl_input,         \* the merged list handed to _apply_filters
    pl_filtered,      \* result of _apply_filters
    pl_unique,        \* result of _remove_duplicates
    pl_sorted,        \* the list after all_channels.sort(...)
    pl_m3u,           \* m3u_lines of get_playlist
    needs_refresh,    \* locals channels_needs_refresh / epg_needs_refresh of background_refresher
    g_bg,             \* history: the expiries the refresher's last check read, and when
    g_bg_installed,   \* history: when the entries that check read had been installed (-1: none)
    call_pc,          \* call harness: "off", "ready" (arguments drawn) or "done"
    call_args,        \* the arguments of the call under study
    call_result,      \* what the call returned
    epgagg_cache,     \* EPGAggregator.cache: None or the combined document
    epgagg_expiry,    \* EPGAggregator.cache_expiry
    enabled_sources,  \* EPGAggregator.enabled_sources
    ea_pc,            \* where the thread calling get_combined_epg stands
    force_refresh_arg, \* argument force_refresh of the running get_combined_epg call
    root,             \* local of get_combined_epg: the <tv> element being filled
    channels_added,   \* local of get_combined_epg
    programmes_count, \* local of get_combined_epg
    futures,          \* local of get_combined_epg: the source name of each submitted future
    ea_pending,       \* futures not yet yielded by as_completed
    ea_ret,           \* the document the last get_combined_epg call returned
    g_ea_log,         \* history: the fetch results of the running build, in completion order
    g_ea_epoch,       \* history: how many set_enabled_sources calls replaced the source set
    g_ea_build,       \* history: <<epoch at which the running build took its sources>>
    g_ea_call,        \* history: <<epoch, enabled_sources>> when the running call began
    g_ea_cache_prov,  \* history: <<sources, epoch, log>> of the build that made the cached document
    g_ea_ret_prov,    \* history: the same for the returned document
    providers,        \* the keys of self.providers (fixed by ENABLED_PROVIDERS)
    warm_cache_on_startup, \* self.warm_cache_on_startup
    warm_epg_on_startup,   \* self.warm_epg_on_startup
    warmer,           \* the startup_cache_warmer thread: "off", "scheduled", "running", "done"
    hung,             \* the providers whose get_epg_data does not return
    distro_feed,      \* the feed the DistroTV upstream serves
    alarm,            \* the process's one SIGALRM timer: its deadline, or -1 when not armed
    sig_handler,      \* the provider whose timeout_handler signal.signal installed last
    fetch_state,      \* each worker of _fetch_provider_channels: "new", "running", ...
    fetch_start,      \* start_time of each worker
    fetch_end,        \* when each worker left provider.get_channels()
    cache_lock,       \* self.cache_lock: the thread that holds it, or ""
    lk_pc,            \* lock study: "idle", "want" (at a with statement), "locked", "fetch"
    lk_block,         \* lock study: the with block a thread is at, or whose fetch it runs
    lk_todo,          \* lock study: the calls a thread's handler has still to make
    lk_valid,         \* lock study: the cache keys for which _is_cache_valid holds
    fb_cache,         \* EPGFallbackManager.cache of the manager last constructed
    fb_cache_expiry,  \* EPGFallbackManager.cache_expiry of that manager
    fb_call,          \* the last _fetch_source_epg call: <<cache key, how served, time>>
    g_fb_parsed,      \* per cache key, when a guide was last downloaded and parsed, or -1
    g_fb_prev         \* g_fb_parsed of the key of fb_call as it was before that call

cache_vars == <<channels_cache, epg_cache, cache_expiry>>

chan_vars == <<all_channels, channel_number, pending, chan_ret>>

epg_vars == <<all_epg_data, epg_pending, epg_ret>>

ghost_vars == <<g_log, g_check, g_installed, g_preclear, g_entry_pre, g_got_pre>>

agg_vars == <<now, cache_vars, allowed, pc, route, chan_vars, epg_vars, response, ghost_vars>>

pl_vars == <<pl_pc, pl_input, pl_filtered, pl_unique, pl_sorted, pl_m3u>>

bg_vars == <<needs_refresh, g_bg, g_bg_installed>>

call_vars == <<call_pc, call_args, call_result>>

epgagg_vars ==
    <<epgagg_cache, epgagg_expiry, enabled_sources, ea_pc, force_refresh_arg, root,
      channels_added, programmes_count, futures, ea_pending, ea_ret, g_ea_log,
      g_ea_epoch, g_ea_build, g_ea_call, g_ea_cache_prov, g_ea_ret_prov>>

ext_vars == <<bg_vars, call_vars, epgagg_vars>>

alarm_vars == <<alarm, sig_handler, fetch_state, fetch_start, fetch_end>>

lock_vars == <<cache_lock, lk_pc, lk_block, lk_todo, lk_valid>>

fb_vars == <<fb_cache, fb_cache_expiry, fb_call, g_fb_parsed, g_fb_prev>>

svc_vars ==
    <<providers, warm_cache_on_startup, warm_epg_on_startup, warmer, hung, distro_feed,
      alarm_vars,
      lock_vars, fb_vars>>

vars == <<filters, agg_vars, pl_vars, ext_vars, svc_vars>>

----------------------------------------------------------------------------
(* Python values of the optional integer fields 'number' and               *)
(* 'channel_number': the key is missing, the value is None, or an int.     *)

NoKey == [kind |-> "nokey", val |-> 0]

None == [kind |-> "none", val |-> 0]

PyInt(n) == [kind |-> "int", val |-> n]

\* dict.get(key, default): the default only when the key is missing.
DictGet(v, default) == IF v.kind = "nokey" THEN default ELSE v

\* bool(v) of an optional integer: a missing key (get -> None), None and 0 are falsy.
Truthy(v) == v.kind = "int" /\ v.val # 0

----------------------------------------------------------------------------
(* Text helpers: str.lower(), str.strip(), re.search(..., re.IGNORECASE)   *)
(* for a literal pattern, and the char-sequence to string conversion.      *)

Lower(c) ==
    CASE c = "A" -> "a"
      [] c = "B" -> "b"
      [] c = "E" -> "e"
      [] c = "N" -> "n"
      [] c = "T" -> "t"
      [] OTHER -> c

LowerSeq(s) == [i \in 1..Len(s) |-> Lower(s[i])]

IsSpace(c) == c = " "

RECURSIVE LStrip(_)
LStrip(s) == IF s # <<>> /\ IsSpace(Head(s)) THEN LStrip(Tail(s)) ELSE s

RECURSIVE RStrip(_)
RStrip(s) ==
    IF s # <<>> /\ IsSpace(s[Len(s)]) THEN RStrip(SubSeq(s, 1, Len(s) - 1)) ELSE s

Strip(s) == RStrip(LStrip(s))

RECURSIVE Str(_)
Str(s) == IF s = <<>> THEN "" ELSE s[1] \o Str(Tail(s))

\* re.search(pattern, text, re.IGNORECASE) is not None, for a pattern of
\* literal characters: the pattern occurs somewhere in the text, case folded.
re_search(pattern, text) ==
    \E i \in 0..(Len(text) - Len(pattern)) :
        \A j \in 1..Len(pattern) : Lower(text[i + j]) = Lower(pattern[j])

----------------------------------------------------------------------------
(* _apply_filters (src/app.py 280-306)                                     *)

AnyFilterSet(f) ==
    \/ f.channel_name_include # <<>>
    \/ f.channel_name_exclude # <<>>
    \/ f.group_include # <<>>
    \/ f.group_exclude # <<>>

\* The body of the for loop for one channel: TRUE when no `continue` is taken.
FilterKeepsMutExcludeAsInclude(f, channel) ==
    /\ ~(f.channel_name_include # <<>> /\ ~re_search(f.channel_name_include, channel.name))
    /\ ~(f.channel_name_exclude # <<>> /\ re_search(f.channel_name_exclude, channel.name))
    /\ ~(f.group_include # <<>> /\ ~re_search(f.group_include, channel.group))
    /\ ~(f.group_exclude # <<>> /\ ~re_search(f.group_exclude, channel.group))

FilterKeeps(f, channel) ==
    /\ ~(f.channel_name_include # <<>> /\ ~re_search(f.channel_name_include, channel.name))
    /\ ~(f.channel_name_exclude # <<>> /\ re_search(f.channel_name_exclude, channel.name))
    /\ ~(f.group_include # <<>> /\ ~re_search(f.group_include, channel.group))
    /\ ~(f.group_exclude # <<>> /\ re_search(f.group_exclude, channel.group))

RECURSIVE FilterLoop(_, _, _)
FilterLoop(f, channels, filtered_channels) ==
    IF channels = <<>> THEN filtered_channels
    ELSE FilterLoop(f, Tail(channels),
                    IF FilterKeeps(f, Head(channels))
                    THEN Append(filtered_channels, Head(channels))
                    ELSE filtered_channels)

_apply_filters(f, channels) ==
    IF ~AnyFilterSet(f) THEN channels ELSE FilterLoop(f, channels, <<>>)

----------------------------------------------------------------------------
(* _remove_duplicates (src/app.py 308-325)                                 *)

DedupKeyMutNoStrip(channel) == <<LowerSeq(channel.name), channel.stream_url>>

DedupKey(channel) == <<Strip(LowerSeq(channel.name)), channel.stream_url>>

RECURSIVE DedupLoop(_, _, _)
DedupLoop(channels, seen, unique_channels) ==
    IF channels = <<>> THEN unique_channels
    ELSE LET key == DedupKey(Head(channels))
         IN  IF key \notin seen /\ key[1] # <<>> /\ key[2] # ""
             THEN DedupLoop(Tail(channels), seen \cup {key},
                            Append(unique_channels, Head(channels)))
             ELSE DedupLoop(Tail(channels), seen, unique_channels)

_remove_duplicates(channels) == DedupLoop(channels, {}, <<>>)

----------------------------------------------------------------------------
(* all_channels.sort(key=lambda x: x.get('channel_number', 999999))        *)
(* (src/app.py 425).  list.sort is stable; comparing None with an int or   *)
(* with None raises TypeError, and in a list of two or more elements every *)
(* key takes part in a comparison.                                         *)

SortDefault == 999999

SortKey(x) == DictGet(x.channel_number, PyInt(SortDefault))

SortRaises(channels) ==
    Len(channels) >= 2 /\ \E i \in 1..Len(channels) : SortKey(channels[i]).kind # "int"

RECURSIVE InsertSorted(_, _)
InsertSorted(sorted, x) ==
    IF sorted = <<>> THEN <<x>>
    ELSE IF SortKey(x).val < SortKey(sorted[Len(sorted)]).val
         THEN Append(InsertSorted(SubSeq(sorted, 1, Len(sorted) - 1), x),
                     sorted[Len(sorted)])
         ELSE Append(sorted, x)

RECURSIVE SortLoop(_, _)
SortLoop(channels, sorted) ==
    IF channels = <<>> THEN sorted
    ELSE SortLoop(Tail(channels), InsertSorted(sorted, Head(channels)))

\* The sorted list, defined when ~SortRaises(channels).
sort_by_channel_number(channels) ==
    IF Len(channels) < 2 THEN channels ELSE SortLoop(channels, <<>>)

----------------------------------------------------------------------------
(* get_playlist (src/app.py 474-517): the M3U document                     *)

RECURSIVE Join(_, _)
Join(parts, sep) ==
    IF parts = <<>> THEN ""
    ELSE IF Len(parts) = 1 THEN parts[1]
    ELSE parts[1] \o sep \o Join(Tail(parts), sep)

Quoted(attr, value) == attr \o "=\"" \o value \o "\""

ExtinfAttrsMutOrder(channel) ==
    (IF channel.id # "" THEN <<Quoted("tvg-id", channel.id)>> ELSE <<>>)
    \o (IF channel.name # <<>> THEN <<Quoted("tvg-name", Str(channel.name))>> ELSE <<>>)
    \o (IF channel.group # <<>> THEN <<Quoted("group-title", Str(channel.group))>> ELSE <<>>)
    \o (IF channel.logo # "" THEN <<Quoted("tvg-logo", channel.logo)>> ELSE <<>>)
    \o (IF Truthy(channel.channel_number)
        THEN <<Quoted("tvg-chno", ToString(channel.channel_number.val))>> ELSE <<>>)
    \o (IF channel.provider # "" THEN <<Quoted("provider", channel.provider)>> ELSE <<>>)

ExtinfAttrs(channel) ==
    (IF channel.id # "" THEN <<Quoted("tvg-id", channel.id)>> ELSE <<>>)
    \o (IF channel.name # <<>> THEN <<Quoted("tvg-name", Str(channel.name))>> ELSE <<>>)
    \o (IF channel.logo # "" THEN <<Quoted("tvg-logo", channel.logo)>> ELSE <<>>)
    \o (IF channel.group # <<>> THEN <<Quoted("group-title", Str(channel.group))>> ELSE <<>>)
    \o (IF Truthy(channel.channel_number)
        THEN <<Quoted("tvg-chno", ToString(channel.channel_number.val))>> ELSE <<>>)
    \o (IF channel.provider # "" THEN <<Quoted("provider", channel.provider)>> ELSE <<>>)

ExtinfLine(channel) ==
    Join(<<"#EXTINF:-1">> \o ExtinfAttrs(channel), " ") \o "," \o Str(channel.name)

RECURSIVE M3uLoop(_, _)
M3uLoop(channels, m3u_lines) ==
    IF channels = <<>> THEN m3u_lines
    ELSE M3uLoop(Tail(channels),
                 m3u_lines \o <<ExtinfLine(Head(channels)), Head(channels).stream_url, "">>)

m3u_lines_of(channels) == M3uLoop(channels, <<"#EXTM3U">>)

----------------------------------------------------------------------------
(* Merged channel records as they stand after the stamping loop            *)
(* (src/app.py 410-413): the provider's fields plus 'provider' and         *)
(* 'channel_number'.                                                       *)

\* (Every record constructor of this module lists its fields in the order
\* in which TLC keeps them, so that records are built in normal form.)
Channel(id, name, stream_url, logo, group, number, provider, chno) ==
    [channel_number |-> chno, name |-> name, group |-> group, stream_url |-> stream_url,
     id |-> id, logo |-> logo, provider |-> provider, number |-> number]

TxtTest == <<"T", "e", "s", "t">>

TxtTestPadded == <<" ", "t", "e", "s", "t", " ">>

TxtBee == <<"B", "e", "e">>

TxtBlank == <<" ", " ">>

TxtNews == <<"N", "e", "w", "s">>

TxtAdult == <<"A", "d", "u", "l", "t", " ", "C">>

ChTest ==
    Channel("x-1", TxtTest, "http://s", "http://l", TxtNews, PyInt(5), "x", PyInt(5))

ChDup ==
    Channel("y-2", TxtTestPadded, "http://s", "", TxtAdult, NoKey, "y", PyInt(2))

ChBee ==
    Channel("", TxtBee, "http://s2", "", <<>>, None, "y", None)

ChNoUrl ==
    Channel("y-4", TxtBee, "", "http://l", TxtNews, NoKey, "y", PyInt(1))

ChBlank ==
    Channel("y-5", TxtBlank, "http://s", "", TxtNews, NoKey, "y", PyInt(3))

ChZero ==
    Channel("x-6", TxtTest, "http://s2", "http://l", TxtAdult, PyInt(0), "x", PyInt(0))

ChannelPool == {ChTest, ChDup, ChBee, ChNoUrl, ChBlank, ChZero}

\* Longest merged list the pipeline harness draws.
MaxLen == 3

BoundedSeq(S, n) == UNION {[1..k -> S] : k \in 0..n}

NoFilters ==
    [channel_name_include |-> <<>>, channel_name_exclude |-> <<>>,
     group_include |-> <<>>, group_exclude |-> <<>>]

\* Every combination of the four filters being unset ('') or set.
FilterConfigs ==
    [channel_name_include : {<<>>, <<"t", "e">>},
     channel_name_exclude : {<<>>, <<"B", "E", "E">>},
     group_include : {<<>>, <<"n", "e", "w", "s">>},
     group_exclude : {<<>>, <<"a", "d", "u", "l", "t">>}]

----------------------------------------------------------------------------
(* Python dicts with string keys.                                          *)

EmptyDict == <<>>

\* d[key] = value
DictSet(d, key, value) == (key :> value) @@ d

\* d.update(other): the keys of other overwrite those of d.
DictUpdate(d, other) == other @@ d

----------------------------------------------------------------------------
(* The registered providers and what their get_channels / get_epg_data can *)
(* hand to the aggregator.  Two providers stand for the two record shapes  *)
(* of src/providers: a dict literal with a 'number' key that is an int or  *)
(* None (Xumo, Pluto, Samsung, LG, Stirr) and one without the key (Tubi,   *)
(* Plex, DistroTV, Git).                                                   *)

Providers == {"xumo", "tubi"}

\* BaseProvider.validate_channel: name and stream_url are non-empty.
validate_channel(channel) == Strip(channel.name) # <<>> /\ channel.stream_url # ""

\* BaseProvider.normalize_channel: fills defaults of fields this model does
\* not carry (language, description); the fields carried here pass through,
\* a null 'number' included.
normalize_channel(channel) == channel

\* The 'provider' and 'channel_number' keys are not set by a provider.
XumoChannel(item) ==
    Channel(item.guid, item.title, item.stream_url, "http://l", item.genre,
            IF Truthy(item.number) THEN PyInt(item.number.val) ELSE None,
            "", NoKey)

TubiChannel(channel) ==
    Channel("tubi-" \o channel.channel_id, channel.name, channel.url, "",
            channel.group, NoKey, "", NoKey)

XumoItemTest ==
    [stream_url |-> "http://s", number |-> PyInt(5), guid |-> "1", title |-> TxtTest,
     genre |-> TxtNews]

\* An upstream item without a number: item.get('number') is None.
XumoItemBee ==
    [stream_url |-> "http://s2", number |-> NoKey, guid |-> "2", title |-> TxtBee,
     genre |-> TxtNews]

TubiItemTest ==
    [name |-> TxtTestPadded, group |-> TxtAdult, channel_id |-> "7", url |-> "http://s"]

TubiItemBee ==
    [name |-> TxtBee, group |-> TxtNews, channel_id |-> "8", url |-> "http://s2"]

\* What the upstream of each provider can serve at the time of a fetch.
UpstreamFeeds(p) ==
    IF p = "xumo"
    THEN {<<>>, <<XumoItemTest>>, <<XumoItemTest, XumoItemBee>>}
    ELSE {<<>>, <<TubiItemTest, TubiItemBee>>}

\* get_channels: one record per upstream item, kept when validate_channel
\* accepts it, passed through normalize_channel.
RECURSIVE get_channels(_, _)
get_channels(p, feed) ==
    IF feed = <<>> THEN <<>>
    ELSE LET channel == IF p = "xumo" THEN XumoChannel(Head(feed))
                        ELSE TubiChannel(Head(feed))
         IN  (IF validate_channel(channel) THEN <<normalize_channel(channel)>> ELSE <<>>)
             \o get_channels(p, Tail(feed))

\* The outcomes of provider.get_channels(): it raises, or returns a list.
ChannelOutcomes(p) ==
    {[channels |-> <<>>, raises |-> TRUE]}
    \cup {[channels |-> get_channels(p, feed), raises |-> FALSE] : feed \in UpstreamFeeds(p)}

\* The outcomes of provider.get_epg_data(): XumoProvider and TubiProvider
\* both leave the guide to the aggregator and return {}.
EpgOutcomes(p) == {[raises |-> FALSE, epg |-> EmptyDict]}

----------------------------------------------------------------------------
(* The aggregator service (src/app.py).  A `with self.cache_lock:` block   *)
(* is one atomic step: every access to the three cache dicts is made       *)
(* inside such a block.                                                    *)

Threads == {"t1", "t2"}

Routes ==
    {"/playlist", "/epg", "/epggz", "/channels", "/status", "/debug",
     "/clear_cache", "/refresh"}

\* The routes whose handler goes on to _get_all_epg_data.
EpgRoutes == {"/epg", "/epggz", "/refresh"}

\* int(os.getenv('CACHE_DURATION', 7200)), scaled to ticks.
CACHE_DURATION == 5

\* Last tick of the clock.
MaxTime == 6

NoReturn == [value |-> <<>>, state |-> "none", exc |-> ""]

NoResponse == [status |-> 0, mimetype |-> "", gzip |-> FALSE, body |-> ""]

NoCheck == [done |-> FALSE, at |-> 0, present |-> FALSE, installed |-> 0,
            hit |-> FALSE, cached |-> <<>>]

NoGot == [epg |-> {}, chan |-> {}]

\* The service as __init__ leaves it, but for the provider registry.
AggCore(routesOf) ==
    /\ now = 0
    /\ channels_cache = EmptyDict
    /\ epg_cache = EmptyDict
    /\ cache_expiry = EmptyDict
    /\ allowed = routesOf
    /\ pc = [t \in Threads |-> "idle"]
    /\ route = [t \in Threads |-> ""]
    /\ all_channels = [t \in Threads |-> <<>>]
    /\ channel_number = [t \in Threads |-> 1]
    /\ pending = [t \in Threads |-> {}]
    /\ chan_ret = [t \in Threads |-> NoReturn]
    /\ all_epg_data = [t \in Threads |-> EmptyDict]
    /\ epg_pending = [t \in Threads |-> {}]
    /\ epg_ret = [t \in Threads |-> NoReturn]
    /\ response = [t \in Threads |-> NoResponse]
    /\ g_log = [t \in Threads |-> <<>>]
    /\ g_check = [t \in Threads |-> NoCheck]
    /\ g_installed = EmptyDict
    /\ g_preclear = [t \in Threads |-> {}]
    /\ g_entry_pre = EmptyDict
    /\ g_got_pre = [t \in Threads |-> NoGot]

\* ENABLED_PROVIDERS names the two providers of Providers, and
\* WARM_CACHE_ON_STARTUP=false: no startup thread.
WarmerOff ==
    /\ warm_cache_on_startup = FALSE
    /\ warm_epg_on_startup = FALSE
    /\ warmer = "off"

\* No worker of _fetch_provider_channels has armed the alarm.
AlarmIdle ==
    /\ alarm = -1
    /\ sig_handler = ""
    /\ fetch_state = [p \in Providers |-> "new"]
    /\ fetch_start = [p \in Providers |-> 0]
    /\ fetch_end = [p \in Providers |-> 0]

\* self.cache_lock = threading.Lock(), free, and no thread near it.
LockIdle ==
    /\ cache_lock = ""
    /\ lk_pc = [t \in Threads |-> "idle"]
    /\ lk_block = [t \in Threads |-> ""]
    /\ lk_todo = [t \in Threads |-> <<>>]
    /\ lk_valid = {}

\* No EPGFallbackManager has been constructed and nothing was downloaded.
FallbackIdle ==
    /\ fb_cache = <<>>
    /\ fb_cache_expiry = <<>>
    /\ fb_call = <<"", "none", 0>>
    /\ g_fb_parsed = [key \in {"mjh_stirr"} |-> -1]
    /\ g_fb_prev = -1

SvcIdle ==
    /\ providers = Providers
    /\ WarmerOff
    /\ hung = {}
    /\ distro_feed = <<>>
    /\ AlarmIdle
    /\ LockIdle
    /\ FallbackIdle

AggInit(routesOf) ==
    /\ AggCore(routesOf)
    /\ SvcIdle

PipelineIdle ==
    /\ pl_pc = "off"
    /\ pl_input = <<>>
    /\ pl_filtered = <<>>
    /\ pl_unique = <<>>
    /\ pl_sorted = <<>>
    /\ pl_m3u = <<>>

NoFlags == [channels |-> FALSE, epg |-> FALSE]

NoSeen == [channels |-> 0, epg |-> 0, done |-> FALSE, at |-> 0]

NoInstalled == [channels |-> -1, epg |-> -1]

BackgroundIdle ==
    /\ needs_refresh = [t \in Threads |-> NoFlags]
    /\ g_bg = [t \in Threads |-> NoSeen]
    /\ g_bg_installed = [t \in Threads |-> NoInstalled]

CallIdle ==
    /\ call_pc = "off"
    /\ call_args = <<>>
    /\ call_result = <<>>

\* self.cache = None
NoDocument == [channels |-> <<>>, present |-> FALSE, programmes |-> <<>>]

NoProvenance == <<<<>>, 0, <<>>>>

\* EPGAggregator.__init__ with the thread that calls it at rest.
EpgAggregatorInit(sources) ==
    /\ epgagg_cache = NoDocument
    /\ epgagg_expiry = 0
    /\ enabled_sources = sources
    /\ ea_pc = "idle"
    /\ force_refresh_arg = FALSE
    /\ root = NoDocument
    /\ channels_added = {}
    /\ programmes_count = 0
    /\ futures = <<>>
    /\ ea_pending = {}
    /\ ea_ret = NoDocument
    /\ g_ea_log = <<>>
    /\ g_ea_epoch = 0
    /\ g_ea_build = 0
    /\ g_ea_call = <<0, <<>>>>
    /\ g_ea_cache_prov = NoProvenance
    /\ g_ea_ret_prov = NoProvenance

ExtIdle ==
    /\ BackgroundIdle
    /\ CallIdle
    /\ EpgAggregatorInit(<<>>)

\* A client request arrives on thread t for route r.
BeginRequest(t, r) ==
    /\ pc[t] = "idle"
    /\ r \in allowed[t]
    /\ route' = [route EXCEPT ![t] = r]
    /\ pc' = [pc EXCEPT ![t] = IF r \in {"/clear_cache", "/refresh"} THEN "clear"
                                ELSE "chan_check"]
    /\ UNCHANGED <<filters, svc_vars, now, cache_vars, allowed, chan_vars, epg_vars, response,
                   ghost_vars, pl_vars, ext_vars>>

_is_cache_validMutLe(cache_key) ==
    cache_key \in DOMAIN cache_expiry /\ now <= cache_expiry[cache_key]

_is_cache_validMutNonEmpty(cache_key) ==
    /\ cache_key \in DOMAIN cache_expiry
    /\ now < cache_expiry[cache_key]
    /\ cache_key \in DOMAIN channels_cache => channels_cache[cache_key] # <<>>

_is_cache_valid(cache_key) ==
    cache_key \in DOMAIN cache_expiry /\ now < cache_expiry[cache_key]

\* self.channels_cache[cache_key] / self.epg_cache[cache_key]: KeyError when missing.
CacheLookup(cache, cache_key) ==
    IF cache_key \in DOMAIN cache
    THEN [value |-> cache[cache_key], state |-> "ok", exc |-> ""]
    ELSE [value |-> <<>>, state |-> "raised", exc |-> "KeyError"]

\* _get_all_channels_concurrent, lines 382-392: the validity test under the
\* lock, then either the cached list is returned or the fan-out is submitted.
CheckChannelsCache(t) ==
    /\ pc[t] = "chan_check"
    /\ g_check' = [g_check EXCEPT ![t] =
          [done |-> TRUE, at |-> now,
           present |-> "all_channels" \in DOMAIN channels_cache,
           installed |-> IF "all_channels" \in DOMAIN g_installed
                         THEN g_installed["all_channels"] ELSE 0,
           hit |-> _is_cache_valid("all_channels"),
           cached |-> IF "all_channels" \in DOMAIN channels_cache
                      THEN channels_cache["all_channels"] ELSE <<>>]]
    /\ IF _is_cache_valid("all_channels")
       THEN /\ chan_ret' = [chan_ret EXCEPT ![t] = CacheLookup(channels_cache, "all_channels")]
            /\ pc' = [pc EXCEPT ![t] = "chan_ret"]
            /\ g_got_pre' = [g_got_pre EXCEPT ![t].chan =
                  IF "all_channels" \in DOMAIN g_entry_pre
                  THEN g_entry_pre["all_channels"] ELSE {}]
            /\ UNCHANGED <<all_channels, channel_number, pending, g_preclear>>
       ELSE /\ all_channels' = [all_channels EXCEPT ![t] = <<>>]
            /\ channel_number' = [channel_number EXCEPT ![t] = 1]
            /\ pending' = [pending EXCEPT ![t] = providers]
            /\ pc' = [pc EXCEPT ![t] = "chan_fanout"]
            /\ g_preclear' = [g_preclear EXCEPT ![t] = {}]
            /\ UNCHANGED <<chan_ret, g_got_pre>>
    /\ UNCHANGED <<filters, svc_vars, now, cache_vars, allowed, route, epg_vars, response,
                   g_log, g_installed, g_entry_pre, pl_vars, ext_vars>>

\* _fetch_provider_channels (lines 327-378): an exception of get_channels
\* and an empty result both become [].
_fetch_provider_channels(outcome) ==
    IF outcome.raises THEN <<>>
    ELSE IF outcome.channels # <<>> THEN outcome.channels
    ELSE <<>>

StampMutIgnoreNumber(provider_name, channel, counter) ==
    [channel EXCEPT !.provider = provider_name,
                    !.channel_number = PyInt(counter)]

StampMutKeepOwn(provider_name, channel, counter) ==
    [channel EXCEPT !.provider = IF channel.provider = "" THEN provider_name ELSE @,
                    !.channel_number = DictGet(channel.number, PyInt(counter))]

\* Lines 411-412 for one channel.
Stamp(provider_name, channel, counter) ==
    [channel EXCEPT !.provider = provider_name,
                    !.channel_number = DictGet(channel.number, PyInt(counter))]

\* The for loop of lines 410-413: the counter advances once per channel.
RECURSIVE StampLoop(_, _, _)
StampLoop(provider_name, provider_channels, counter) ==
    IF provider_channels = <<>> THEN <<>>
    ELSE <<Stamp(provider_name, Head(provider_channels), counter)>>
         \o StampLoop(provider_name, Tail(provider_channels), counter + 1)

\* One future is yielded by as_completed and its result is merged (lines 403-418).
ProviderCompletes(t, p, outcome) ==
    /\ pc[t] = "chan_fanout"
    /\ p \in pending[t]
    /\ LET provider_channels == _fetch_provider_channels(outcome)
       IN  /\ all_channels' = [all_channels EXCEPT ![t] =
                                @ \o StampLoop(p, provider_channels, channel_number[t])]
           /\ channel_number' = [channel_number EXCEPT ![t] = @ + Len(provider_channels)]
           /\ g_log' = [g_log EXCEPT ![t] =
                 Append(@, [channels |-> outcome.channels, provider |-> p,
                            raises |-> outcome.raises])]
    /\ pending' = [pending EXCEPT ![t] = @ \ {p}]
    /\ UNCHANGED <<filters, svc_vars, now, cache_vars, allowed, pc, route, chan_ret, epg_vars,
                   response, g_check, g_installed, g_preclear, g_entry_pre, g_got_pre,
                   pl_vars, ext_vars>>

\* Lines 420-434 once every future has been consumed: filter, deduplicate,
\* sort (which may raise TypeError), then install under the lock.
FinishChannels(t) ==
    /\ pc[t] = "chan_fanout"
    /\ pending[t] = {}
    /\ LET unique == _remove_duplicates(_apply_filters(filters, all_channels[t]))
       IN  IF SortRaises(unique)
           THEN /\ chan_ret' = [chan_ret EXCEPT ![t] =
                      [value |-> <<>>, state |-> "raised", exc |-> "TypeError"]]
                /\ UNCHANGED <<all_channels, cache_vars, g_installed, g_entry_pre, g_got_pre>>
           ELSE LET sorted == sort_by_channel_number(unique)
                IN  /\ all_channels' = [all_channels EXCEPT ![t] = sorted]
                    /\ channels_cache' = DictSet(channels_cache, "all_channels", sorted)
                    /\ cache_expiry' =
                          DictSet(cache_expiry, "all_channels", now + CACHE_DURATION)
                    /\ chan_ret' = [chan_ret EXCEPT ![t] =
                          [value |-> sorted, state |-> "ok", exc |-> ""]]
                    /\ g_installed' = DictSet(g_installed, "all_channels", now)
                    /\ g_entry_pre' = DictSet(g_entry_pre, "all_channels", g_preclear[t])
                    /\ g_got_pre' = [g_got_pre EXCEPT ![t].chan = g_preclear[t]]
                    /\ UNCHANGED epg_cache
    /\ pc' = [pc EXCEPT ![t] = "chan_ret"]
    /\ UNCHANGED <<filters, svc_vars, now, allowed, route, channel_number, pending, epg_vars,
                   response, g_log, g_check, g_preclear, pl_vars, ext_vars>>

\* _get_all_epg_data, lines 442-448.
CheckEpgCache(t) ==
    /\ \/ /\ pc[t] = "chan_ret"
          /\ chan_ret[t].state = "ok"
          /\ \/ route[t] \in EpgRoutes
             \/ route[t] = "background_refresher" /\ needs_refresh[t].epg
             \/ route[t] = "startup_cache_warmer" /\ warm_epg_on_startup
       \/ pc[t] = "epg_check"
    /\ IF _is_cache_valid("all_epg")
       THEN /\ epg_ret' = [epg_ret EXCEPT ![t] = CacheLookup(epg_cache, "all_epg")]
            /\ pc' = [pc EXCEPT ![t] = "epg_ret"]
            /\ g_got_pre' = [g_got_pre EXCEPT ![t].epg =
                  IF "all_epg" \in DOMAIN g_entry_pre THEN g_entry_pre["all_epg"] ELSE {}]
            /\ UNCHANGED <<all_epg_data, epg_pending, g_preclear>>
       ELSE /\ all_epg_data' = [all_epg_data EXCEPT ![t] = EmptyDict]
            /\ epg_pending' = [epg_pending EXCEPT ![t] = providers]
            /\ pc' = [pc EXCEPT ![t] = "epg_fanout"]
            /\ g_preclear' = [g_preclear EXCEPT ![t] = {}]
            /\ UNCHANGED <<epg_ret, g_got_pre>>
    /\ UNCHANGED <<filters, svc_vars, now, cache_vars, allowed, route, chan_vars, response,
                   g_log, g_check, g_installed, g_entry_pre, pl_vars, ext_vars>>

MergeEpgMutKeepFirst(merged, outcome) ==
    IF ~outcome.raises /\ DOMAIN outcome.epg # {}
    THEN DictUpdate(outcome.epg, merged) ELSE merged

\* Lines 459-465 for one future: an exception is logged, a non-empty
\* mapping is merged with dict.update.
MergeEpg(merged, outcome) ==
    IF ~outcome.raises /\ DOMAIN outcome.epg # {}
    THEN DictUpdate(merged, outcome.epg) ELSE merged

\* One EPG future is yielded and merged (lines 457-465).
EpgProviderCompletes(t, p, outcome) ==
    /\ pc[t] = "epg_fanout"
    /\ p \in epg_pending[t]
    /\ all_epg_data' = [all_epg_data EXCEPT ![t] = MergeEpg(@, outcome)]
    /\ epg_pending' = [epg_pending EXCEPT ![t] = @ \ {p}]
    /\ UNCHANGED <<filters, svc_vars, now, cache_vars, allowed, pc, route, chan_vars, epg_ret,
                   response, ghost_vars, pl_vars, ext_vars>>

\* Lines 467-472.
FinishEpg(t) ==
    /\ pc[t] = "epg_fanout"
    /\ epg_pending[t] = {}
    /\ epg_cache' = DictSet(epg_cache, "all_epg", all_epg_data[t])
    /\ cache_expiry' = DictSet(cache_expiry, "all_epg", now + CACHE_DURATION)
    /\ epg_ret' = [epg_ret EXCEPT ![t] =
          [value |-> all_epg_data[t], state |-> "ok", exc |-> ""]]
    /\ pc' = [pc EXCEPT ![t] = "epg_ret"]
    /\ g_installed' = DictSet(g_installed, "all_epg", now)
    /\ g_entry_pre' = DictSet(g_entry_pre, "all_epg", g_preclear[t])
    /\ g_got_pre' = [g_got_pre EXCEPT ![t].epg = g_preclear[t]]
    /\ UNCHANGED <<filters, svc_vars, now, channels_cache, allowed, route, chan_vars, all_epg_data,
                   epg_pending, response, g_log, g_check, g_preclear, pl_vars, ext_vars>>

ClearCachesMutKeepExpiry(t) ==
    /\ pc[t] = "clear"
    /\ channels_cache' = EmptyDict
    /\ epg_cache' = EmptyDict
    /\ pc' = [pc EXCEPT ![t] = IF route[t] = "/refresh" THEN "chan_check" ELSE "cleared"]
    /\ g_installed' = EmptyDict
    /\ g_entry_pre' = EmptyDict
    /\ g_preclear' = [u \in Threads |->
          IF route[t] = "/refresh" /\ pc[u] \in {"chan_fanout", "epg_fanout"}
          THEN g_preclear[u] \cup {t} ELSE g_preclear[u]]
    /\ UNCHANGED <<filters, svc_vars, now, cache_expiry, allowed, route, chan_vars, epg_vars,
                   response, g_log, g_check, g_got_pre, pl_vars, ext_vars>>

\* The locked block of clear_cache (709-712) and of force_refresh (723-726).
ClearCaches(t) ==
    /\ pc[t] = "clear"
    /\ channels_cache' = EmptyDict
    /\ epg_cache' = EmptyDict
    /\ cache_expiry' = EmptyDict
    /\ pc' = [pc EXCEPT ![t] = IF route[t] = "/refresh" THEN "chan_check" ELSE "cleared"]
    /\ g_installed' = EmptyDict
    /\ g_entry_pre' = EmptyDict
    /\ g_preclear' = [u \in Threads |->
          IF route[t] = "/refresh" /\ pc[u] \in {"chan_fanout", "epg_fanout"}
          THEN g_preclear[u] \cup {t} ELSE g_preclear[u]]
    /\ UNCHANGED <<filters, svc_vars, now, allowed, route, chan_vars, epg_vars, response,
                   g_log, g_check, g_got_pre, pl_vars, ext_vars>>

----------------------------------------------------------------------------
(* The route handlers: the Response each builds from what the fetches      *)
(* returned.  A handler's `except Exception as e` makes the 500 response.  *)

Response200(mimetype, body) ==
    [status |-> 200, mimetype |-> mimetype, gzip |-> FALSE, body |-> body]

Response500(text) ==
    [status |-> 500, mimetype |-> "text/html", gzip |-> FALSE, body |-> text]

\* provider_stats of get_status / get_debug_info.
RECURSIVE ProviderStatsLoop(_, _)
ProviderStatsLoop(channels, provider_stats) ==
    IF channels = <<>> THEN provider_stats
    ELSE LET provider == Head(channels).provider
             count == IF provider \in DOMAIN provider_stats
                      THEN provider_stats[provider] ELSE 0
         IN  ProviderStatsLoop(Tail(channels), DictSet(provider_stats, provider, count + 1))

ProviderStats(channels) == ProviderStatsLoop(channels, EmptyDict)

get_playlist(t) ==
    IF chan_ret[t].state = "raised"
    THEN Response500("Error generating playlist: " \o chan_ret[t].exc)
    ELSE Response200("application/vnd.apple.mpegurl", m3u_lines_of(chan_ret[t].value))

get_epg_xml(t) ==
    IF chan_ret[t].state = "raised"
    THEN Response500("Error generating EPG XML: " \o chan_ret[t].exc)
    ELSE IF epg_ret[t].state = "raised"
    THEN Response500("Error generating EPG XML: " \o epg_ret[t].exc)
    ELSE Response200("application/xml",
                     [channels |-> chan_ret[t].value, programmes |-> epg_ret[t].value])

\* get_epg_xml never raises: it returns its own Response, whose data
\* (the XML, or the error text of a 500) is compressed and sent with the
\* default status.
get_epg_xml_gz(t) ==
    LET xml_response == get_epg_xml(t)
    IN  [status |-> 200, mimetype |-> "application/gzip", gzip |-> TRUE,
         body |-> xml_response.body]

get_channels_json(t) ==
    IF chan_ret[t].state = "raised"
    THEN Response500("Error generating channels JSON: " \o chan_ret[t].exc)
    ELSE Response200("application/json", chan_ret[t].value)

get_status(t) ==
    IF chan_ret[t].state = "raised"
    THEN Response500("Error generating status page: " \o chan_ret[t].exc)
    ELSE Response200("text/html",
                     [provider_stats |-> ProviderStats(chan_ret[t].value),
                      total |-> Len(chan_ret[t].value)])

get_debug_info(t) ==
    IF chan_ret[t].state = "raised"
    THEN Response500("Error generating debug info: " \o chan_ret[t].exc)
    ELSE Response200("application/json",
                     [provider_stats |-> ProviderStats(chan_ret[t].value),
                      total_channels |-> Len(chan_ret[t].value),
                      channels_cached |-> "all_channels" \in DOMAIN channels_cache,
                      epg_cached |-> "all_epg" \in DOMAIN epg_cache])

clear_cache(t) == Response200("text/plain", "Cache cleared successfully")

force_refresh(t) ==
    IF chan_ret[t].state = "raised"
    THEN Response500("Error forcing refresh: " \o chan_ret[t].exc)
    ELSE IF epg_ret[t].state = "raised"
    THEN Response500("Error forcing refresh: " \o epg_ret[t].exc)
    ELSE Response200("text/plain",
                     [channels |-> Len(chan_ret[t].value),
                      epg |-> Cardinality(DOMAIN epg_ret[t].value)])

HandlerResponse(t) ==
    CASE route[t] = "/playlist" -> get_playlist(t)
      [] route[t] = "/epg" -> get_epg_xml(t)
      [] route[t] = "/epggz" -> get_epg_xml_gz(t)
      [] route[t] = "/channels" -> get_channels_json(t)
      [] route[t] = "/status" -> get_status(t)
      [] route[t] = "/debug" -> get_debug_info(t)
      [] route[t] = "/clear_cache" -> clear_cache(t)
      [] route[t] = "/refresh" -> force_refresh(t)

\* The handler has everything it waits for: a fetch raised, or the last
\* fetch of the route returned, or the caches were cleared.
HandlerReady(t) ==
    CASE pc[t] = "chan_ret" -> chan_ret[t].state = "raised" \/ route[t] \notin EpgRoutes
      [] pc[t] = "epg_ret" -> TRUE
      [] pc[t] = "cleared" -> TRUE
      [] OTHER -> FALSE

Respond(t) ==
    /\ route[t] \in Routes
    /\ HandlerReady(t)
    /\ response' = [response EXCEPT ![t] = HandlerResponse(t)]
    /\ pc' = [pc EXCEPT ![t] = "responded"]
    /\ UNCHANGED <<filters, svc_vars, now, cache_vars, allowed, route, chan_vars, epg_vars,
                   ghost_vars, pl_vars, ext_vars>>

\* The request is over; the handler's locals are gone.
EndRequest(t) ==
    /\ pc[t] = "responded"
    /\ pc' = [pc EXCEPT ![t] = "idle"]
    /\ route' = [route EXCEPT ![t] = ""]
    /\ all_channels' = [all_channels EXCEPT ![t] = <<>>]
    /\ channel_number' = [channel_number EXCEPT ![t] = 1]
    /\ chan_ret' = [chan_ret EXCEPT ![t] = NoReturn]
    /\ all_epg_data' = [all_epg_data EXCEPT ![t] = EmptyDict]
    /\ epg_ret' = [epg_ret EXCEPT ![t] = NoReturn]
    /\ response' = [response EXCEPT ![t] = NoResponse]
    /\ g_log' = [g_log EXCEPT ![t] = <<>>]
    /\ g_check' = [g_check EXCEPT ![t] = NoCheck]
    /\ g_preclear' = [g_preclear EXCEPT ![t] = {}]
    /\ g_got_pre' = [g_got_pre EXCEPT ![t] = NoGot]
    /\ UNCHANGED <<filters, svc_vars, now, cache_vars, allowed, pending, epg_pending,
                   g_installed, g_entry_pre, pl_vars, ext_vars>>

\* time.time() advances.
Tick ==
    /\ now < MaxTime
    /\ now' = now + 1
    /\ UNCHANGED <<filters, svc_vars, cache_vars, allowed, pc, route, chan_vars, epg_vars,
                   response, ghost_vars, pl_vars, ext_vars>>

----------------------------------------------------------------------------
(* The background refresher (src/app.py 233-273): a daemon thread that     *)
(* sleeps, tests the age of both cache entries under the lock and calls    *)
(* the fetches for the entries it judged due.                              *)

\* self.cache_expiry.get(cache_key, default)
ExpiryGet(cache_key, default) ==
    IF cache_key \in DOMAIN cache_expiry THEN cache_expiry[cache_key] ELSE default

\* Lines 244-245: now - (expiry - self.cache_duration)
AgeOf(time_now, expiry, cache_duration) == time_now - (expiry - cache_duration)

cache_age(cache_key, cache_duration) ==
    AgeOf(now, ExpiryGet(cache_key, now), cache_duration)

NeedsRefreshMutHalf(age, cache_duration) == 2 * age > cache_duration

\* Lines 247-248: age > (self.cache_duration * 0.75), both sides times four.
NeedsRefresh(age, cache_duration) == 4 * age > 3 * cache_duration

InstalledAt(cache_key) ==
    IF cache_key \in DOMAIN g_installed THEN g_installed[cache_key] ELSE -1

\* The locked block of lines 242-248 after a sleep, and the branch of line 250.
BackgroundCheck(t) ==
    /\ pc[t] = "idle"
    /\ "background_refresher" \in allowed[t]
    /\ LET channels_age == cache_age("all_channels", CACHE_DURATION)
           epg_age == cache_age("all_epg", CACHE_DURATION)
           channels_needs_refresh == NeedsRefresh(channels_age, CACHE_DURATION)
           epg_needs_refresh == NeedsRefresh(epg_age, CACHE_DURATION)
       IN  /\ needs_refresh' = [needs_refresh EXCEPT ![t] =
                 [channels |-> channels_needs_refresh, epg |-> epg_needs_refresh]]
           /\ pc' = [pc EXCEPT ![t] =
                 IF channels_needs_refresh THEN "chan_check"
                 ELSE IF epg_needs_refresh THEN "epg_check"
                 ELSE "idle"]
           /\ route' = [route EXCEPT ![t] =
                 IF channels_needs_refresh \/ epg_needs_refresh
                 THEN "background_refresher" ELSE ""]
    /\ g_bg' = [g_bg EXCEPT ![t] =
          [channels |-> ExpiryGet("all_channels", 0), epg |-> ExpiryGet("all_epg", 0),
           done |-> TRUE, at |-> now]]
    /\ g_bg_installed' = [g_bg_installed EXCEPT ![t] =
          [channels |-> InstalledAt("all_channels"), epg |-> InstalledAt("all_epg")]]
    /\ UNCHANGED <<filters, svc_vars, now, cache_vars, allowed, chan_vars, epg_vars, response,
                   ghost_vars, pl_vars, call_vars, epgagg_vars>>

\* The refresher has made the calls of lines 254-260, or one of them raised
\* into the except clause of line 265: it sleeps until the next check.
BackgroundSleep(t) ==
    /\ route[t] = "background_refresher"
    /\ \/ pc[t] = "epg_ret"
       \/ pc[t] = "chan_ret" /\ (chan_ret[t].state = "raised" \/ ~needs_refresh[t].epg)
    /\ pc' = [pc EXCEPT ![t] = "idle"]
    /\ route' = [route EXCEPT ![t] = ""]
    /\ all_channels' = [all_channels EXCEPT ![t] = <<>>]
    /\ channel_number' = [channel_number EXCEPT ![t] = 1]
    /\ chan_ret' = [chan_ret EXCEPT ![t] = NoReturn]
    /\ all_epg_data' = [all_epg_data EXCEPT ![t] = EmptyDict]
    /\ epg_ret' = [epg_ret EXCEPT ![t] = NoReturn]
    /\ g_log' = [g_log EXCEPT ![t] = <<>>]
    /\ g_check' = [g_check EXCEPT ![t] = NoCheck]
    /\ g_preclear' = [g_preclear EXCEPT ![t] = {}]
    /\ g_got_pre' = [g_got_pre EXCEPT ![t] = NoGot]
    /\ needs_refresh' = [needs_refresh EXCEPT ![t] = NoFlags]
    /\ g_bg' = [g_bg EXCEPT ![t] = NoSeen]
    /\ g_bg_installed' = [g_bg_installed EXCEPT ![t] = NoInstalled]
    /\ UNCHANGED <<filters, svc_vars, now, cache_vars, allowed, pending, epg_pending, response,
                   g_installed, g_entry_pre, pl_vars, call_vars, epgagg_vars>>

BackgroundRoutes ==
    [t \in Threads |-> IF t = "t1" THEN {"background_refresher"} ELSE {}]

BackgroundInit ==
    /\ filters = NoFilters
    /\ AggInit(BackgroundRoutes)
    /\ PipelineIdle
    /\ ExtIdle

BackgroundNext ==
    \/ \E t \in Threads : BackgroundCheck(t)
    \/ \E t \in Threads : CheckChannelsCache(t)
    \/ \E t \in Threads, p \in Providers : \E o \in ChannelOutcomes(p) : ProviderCompletes(t, p, o)
    \/ \E t \in Threads : FinishChannels(t)
    \/ \E t \in Threads : CheckEpgCache(t)
    \/ \E t \in Threads, p \in Providers : \E o \in EpgOutcomes(p) : EpgProviderCompletes(t, p, o)
    \/ \E t \in Threads : FinishEpg(t)
    \/ \E t \in Threads : BackgroundSleep(t)
    \/ Tick

SpecBackground == BackgroundInit /\ [][BackgroundNext]_vars

----------------------------------------------------------------------------
(* Channel requests on one thread and cache clears on the other, with the  *)
(* clock.                                                                  *)

FetchRoutes == [t \in Threads |-> IF t = "t1" THEN {"/channels"} ELSE {"/clear_cache"}]

FetchInit ==
    /\ filters \in {NoFilters, [NoFilters EXCEPT !.group_exclude = <<"a", "d", "u", "l", "t">>]}
    /\ AggInit(FetchRoutes)
    /\ PipelineIdle
    /\ ExtIdle

FetchNext ==
    \/ \E t \in Threads, r \in Routes : BeginRequest(t, r)
    \/ \E t \in Threads : CheckChannelsCache(t)
    \/ \E t \in Threads, p \in Providers : \E o \in ChannelOutcomes(p) : ProviderCompletes(t, p, o)
    \/ \E t \in Threads : FinishChannels(t)
    \/ \E t \in Threads : ClearCaches(t)
    \/ \E t \in Threads : Respond(t)
    \/ \E t \in Threads : EndRequest(t)
    \/ Tick

Spec == FetchInit /\ [][FetchNext]_vars

----------------------------------------------------------------------------
(* One client thread requesting any of the eight routes.                   *)

RoutesRoutes == [t \in Threads |-> IF t = "t1" THEN Routes ELSE {}]

RoutesInit ==
    /\ filters = NoFilters
    /\ AggInit(RoutesRoutes)
    /\ PipelineIdle
    /\ ExtIdle

RoutesNext ==
    \/ \E t \in Threads, r \in Routes : BeginRequest(t, r)
    \/ \E t \in Threads : CheckChannelsCache(t)
    \/ \E t \in Threads, p \in Providers : \E o \in ChannelOutcomes(p) : ProviderCompletes(t, p, o)
    \/ \E t \in Threads : FinishChannels(t)
    \/ \E t \in Threads : CheckEpgCache(t)
    \/ \E t \in Threads, p \in Providers : \E o \in EpgOutcomes(p) : EpgProviderCompletes(t, p, o)
    \/ \E t \in Threads : FinishEpg(t)
    \/ \E t \in Threads : ClearCaches(t)
    \/ \E t \in Threads : Respond(t)
    \/ \E t \in Threads : EndRequest(t)

SpecRoutes == RoutesInit /\ [][RoutesNext]_vars

----------------------------------------------------------------------------
(* A /refresh request on one thread while the other thread serves /epg.    *)

RefreshRoutes == [t \in Threads |-> IF t = "t1" THEN {"/refresh"} ELSE {"/epg"}]

RefreshInit ==
    /\ filters = NoFilters
    /\ AggInit(RefreshRoutes)
    /\ PipelineIdle
    /\ ExtIdle

SpecRefresh == RefreshInit /\ [][RoutesNext]_vars

----------------------------------------------------------------------------
(* The post-merge pipeline of _get_all_channels_concurrent (src/app.py     *)
(* 420-425) and get_playlist, run step by step on a drawn merged list.     *)

PipelineInit ==
    /\ filters \in FilterConfigs
    /\ AggInit([t \in Threads |-> {}])
    /\ pl_input \in BoundedSeq(ChannelPool, MaxLen)
    /\ pl_pc = "filter"
    /\ pl_filtered = <<>>
    /\ pl_unique = <<>>
    /\ pl_sorted = <<>>
    /\ pl_m3u = <<>>
    /\ ExtIdle

ApplyFilters ==
    /\ pl_pc = "filter"
    /\ pl_filtered' = _apply_filters(filters, pl_input)
    /\ pl_pc' = "dedup"
    /\ UNCHANGED <<filters, svc_vars, pl_input, pl_unique, pl_sorted, pl_m3u, agg_vars, ext_vars>>

RemoveDuplicates ==
    /\ pl_pc = "dedup"
    /\ pl_unique' = _remove_duplicates(pl_filtered)
    /\ pl_pc' = "sort"
    /\ UNCHANGED <<filters, svc_vars, pl_input, pl_filtered, pl_sorted, pl_m3u, agg_vars, ext_vars>>

SortChannels ==
    /\ pl_pc = "sort"
    /\ IF SortRaises(pl_unique)
       THEN pl_pc' = "raised" /\ UNCHANGED pl_sorted
       ELSE pl_pc' = "cached" /\ pl_sorted' = sort_by_channel_number(pl_unique)
    /\ UNCHANGED <<filters, svc_vars, pl_input, pl_filtered, pl_unique, pl_m3u, agg_vars, ext_vars>>

GetPlaylist ==
    /\ pl_pc = "cached"
    /\ pl_m3u' = m3u_lines_of(pl_sorted)
    /\ pl_pc' = "served"
    /\ UNCHANGED <<filters, svc_vars, pl_input, pl_filtered, pl_unique, pl_sorted, agg_vars, ext_vars>>

PipelineNext ==
    \/ ApplyFilters
    \/ RemoveDuplicates
    \/ SortChannels
    \/ GetPlaylist

SpecPipeline == PipelineInit /\ [][PipelineNext]_vars

----------------------------------------------------------------------------
(* Helpers of the claims                                                   *)

\* The elements of L at the indices in I, in the order of L.
RECURSIVE PickFrom(_, _, _)
PickFrom(L, I, i) ==
    IF i > Len(L) THEN <<>>
    ELSE (IF i \in I THEN <<L[i]>> ELSE <<>>) \o PickFrom(L, I, i + 1)

Pick(L, I) == PickFrom(L, I, 1)

\* (name.lower().strip(), stream_url)
NormKey(c) == <<Strip(LowerSeq(c.name)), c.stream_url>>

ValidKey(k) == k[1] # <<>> /\ k[2] # ""

FirstOfKey(L) ==
    {i \in 1..Len(L) :
        /\ ValidKey(NormKey(L[i]))
        /\ \A j \in 1..(i - 1) : NormKey(L[j]) # NormKey(L[i])}

DedupDone == pl_pc \in {"sort", "raised", "cached", "served"}

\* C3: _remove_duplicates(L) is exactly the first channel of L for each key
\* (name.lower().strip(), stream_url) with a non-empty name part and URL, in
\* the order of L, and removing duplicates a second time changes nothing.
C3_DedupKeepsFirstIdempotent ==
    DedupDone =>
        /\ pl_unique = Pick(pl_filtered, FirstOfKey(pl_filtered))
        /\ _remove_duplicates(pl_unique) = pl_unique

\* A later channel with the key of an earlier one, an empty-keyed channel and
\* a kept channel were all in the input.
C3_Witness ==
    /\ DedupDone
    /\ pl_filtered = <<ChTest, ChBlank, ChDup>>
    /\ pl_unique = <<ChTest>>

\* A case-insensitive match: the folded pattern is a slice of the folded text.
Matches(pattern, text) ==
    \E i \in 1..(Len(text) + 1) :
        /\ i + Len(pattern) - 1 <= Len(text)
        /\ SubSeq(LowerSeq(text), i, i + Len(pattern) - 1) = LowerSeq(pattern)

ClaimKeeps(f, c) ==
    /\ f.channel_name_include = <<>> \/ Matches(f.channel_name_include, c.name)
    /\ f.channel_name_exclude = <<>> \/ ~Matches(f.channel_name_exclude, c.name)
    /\ f.group_include = <<>> \/ Matches(f.group_include, c.group)
    /\ f.group_exclude = <<>> \/ ~Matches(f.group_exclude, c.group)

\* C4: _apply_filters keeps a channel iff every set filter accepts it
\* (include matches, exclude does not match, case-insensitively); the kept
\* channels are unmodified and in their original order.
C4_FilterCorrect ==
    pl_pc # "filter" =>
        pl_filtered = Pick(pl_input, {i \in 1..Len(pl_input) : ClaimKeeps(filters, pl_input[i])})

\* GROUP_EXCLUDE = "adult" drops a channel of group "Adult C" and keeps another.
C4_Witness ==
    /\ pl_pc # "filter"
    /\ filters.group_exclude = <<"a", "d", "u", "l", "t">>
    /\ filters.channel_name_include # <<>>
    /\ pl_input = <<ChDup, ChTest, ChBee>>
    /\ pl_filtered = <<ChTest>>

\* The attributes of the claim, each with its source field, in the fixed order.
ClaimAttrs(c) ==
    <<  <<"tvg-id", c.id, c.id # "">>,
        <<"tvg-name", Str(c.name), c.name # <<>> >>,
        <<"tvg-logo", c.logo, c.logo # "">>,
        <<"group-title", Str(c.group), c.group # <<>> >>,
        <<"tvg-chno", ToString(c.channel_number.val), Truthy(c.channel_number)>>,
        <<"provider", c.provider, c.provider # "">>  >>

RECURSIVE AttrText(_)
AttrText(attrs) ==
    IF attrs = <<>> THEN ""
    ELSE (IF Head(attrs)[3]
          THEN " " \o Head(attrs)[1] \o "=\"" \o Head(attrs)[2] \o "\""
          ELSE "")
         \o AttrText(Tail(attrs))

ClaimExtinf(c) == "#EXTINF:-1" \o AttrText(ClaimAttrs(c)) \o "," \o Str(c.name)

\* C5: the playlist starts with #EXTM3U and holds, for each cached channel in
\* cached order, the #EXTINF:-1 line with exactly the non-empty attributes in
\* the fixed order and ',<name>', then the stream URL, then a blank line.
\* (Non-empty is Python truthiness: '', None and the number 0 are empty.)
C5_M3uEntryShape ==
    pl_pc = "served" =>
        /\ Len(pl_m3u) = 1 + 3 * Len(pl_sorted)
        /\ pl_m3u[1] = "#EXTM3U"
        /\ \A i \in 1..Len(pl_sorted) :
            /\ pl_m3u[3 * i - 1] = ClaimExtinf(pl_sorted[i])
            /\ pl_m3u[3 * i] = pl_sorted[i].stream_url
            /\ pl_m3u[3 * i + 1] = ""

\* The entry of the specification's example, after a channel with fewer attributes.
C5_Witness ==
    /\ pl_pc = "served"
    /\ Len(pl_m3u) = 7
    /\ pl_m3u[2] = "#EXTINF:-1 tvg-id=\"x-6\" tvg-name=\"Test\" tvg-logo=\"http://l\" group-title=\"Adult C\" provider=\"x\",Test"
    /\ pl_m3u[5] = "#EXTINF:-1 tvg-id=\"x-1\" tvg-name=\"Test\" tvg-logo=\"http://l\" group-title=\"News\" tvg-chno=\"5\" provider=\"x\",Test"
    /\ pl_m3u[6] = "http://s"
    /\ pl_m3u[7] = ""

----------------------------------------------------------------------------
(* Claims about the channel fetch (Spec).                                  *)

\* The thread has run a fan-out in this request and the fetch has returned
\* or raised.
CycleEnded(t) ==
    /\ g_check[t].done
    /\ ~g_check[t].hit
    /\ chan_ret[t].state # "none"

\* The providers of the cycle that neither raised nor returned nothing.
Remaining(log) == SelectSeq(log, LAMBDA e : ~e.raises /\ e.channels # <<>>)

RECURSIVE MergeRemaining(_, _)
MergeRemaining(log, counter) ==
    IF log = <<>> THEN <<>>
    ELSE StampLoop(Head(log).provider, Head(log).channels, counter)
         \o MergeRemaining(Tail(log), counter + Len(Head(log).channels))

ExpectedList(log) ==
    sort_by_channel_number(
        _remove_duplicates(_apply_filters(filters, MergeRemaining(Remaining(log), 1))))

C2_CacheTtl ==
    \A t \in Threads :
        g_check[t].done =>
            /\ g_check[t].hit <=>
                  (g_check[t].present
                   /\ g_check[t].at < g_check[t].installed + CACHE_DURATION)
            /\ g_check[t].hit =>
                  /\ chan_ret[t] = [value |-> g_check[t].cached, state |-> "ok", exc |-> ""]
                  /\ g_log[t] = <<>>
                  /\ pending[t] = {}
            /\ ~g_check[t].hit =>
                  /\ pending[t] \cup {g_log[t][i].provider : i \in 1..Len(g_log[t])}
                        = Providers
                  /\ chan_ret[t].state = "none" => pc[t] = "chan_fanout"

\* A read exactly CACHE_DURATION after the install finds the entry present
\* and expired, and fans out.
C2_Witness ==
    \E t \in Threads :
        /\ g_check[t].done
        /\ g_check[t].present
        /\ g_check[t].cached # <<>>
        /\ g_check[t].at = g_check[t].installed + CACHE_DURATION
        /\ ~g_check[t].hit
        /\ pc[t] = "chan_fanout"
        /\ pending[t] = Providers

\* C6: every channel of the cached list (and of a returned list) whose
\* provider record carries an integer number n has channel_number = n.
C6_ExplicitNumbersPreserved ==
    /\ "all_channels" \in DOMAIN channels_cache =>
          \A i \in 1..Len(channels_cache["all_channels"]) :
              LET c == channels_cache["all_channels"][i]
              IN  c.number.kind = "int" => c.channel_number = c.number
    /\ \A t \in Threads :
          \A i \in 1..Len(chan_ret[t].value) :
              LET c == chan_ret[t].value[i]
              IN  c.number.kind = "int" => c.channel_number = c.number

\* The numbered channel was merged second, when the counter stood at 3, and
\* is cached with its own number 5 after a channel numbered by the counter.
C6_Witness ==
    /\ "all_channels" \in DOMAIN channels_cache
    /\ \E t \in Threads :
          /\ Len(g_log[t]) = 2
          /\ g_log[t][1].provider = "tubi"
          /\ Len(g_log[t][1].channels) = 2
          /\ chan_ret[t].state = "ok"
          /\ chan_ret[t].value = channels_cache["all_channels"]
    /\ \E i \in 1..Len(channels_cache["all_channels"]) :
          LET c == channels_cache["all_channels"][i]
          IN  /\ i > 1
              /\ c.provider = "xumo"
              /\ c.number = PyInt(5)
              /\ c.channel_number = PyInt(5)

\* The positions of the merge whose channel has no upstream number: the
\* 'number' key is absent, or present with None.
Unnumbered(channels) == {i \in 1..Len(channels) : channels[i].number.kind # "int"}

\* C7: during a fetch cycle every merged channel without an upstream number
\* has an integer channel_number, and the k-th such channel in processing
\* order has the number k.
C7_FallbackSequential ==
    \A t \in Threads :
        pc[t] = "chan_fanout" =>
            \A i \in Unnumbered(all_channels[t]) :
                all_channels[t][i].channel_number =
                    PyInt(Cardinality({j \in Unnumbered(all_channels[t]) : j <= i}))

\* Ascending channel_number, a channel without a number after all numbered ones.
Ascending(channels) ==
    \A i, j \in 1..Len(channels) :
        (i < j /\ channels[j].channel_number.kind = "int") =>
            /\ channels[i].channel_number.kind = "int"
            /\ channels[i].channel_number.val <= channels[j].channel_number.val

----------------------------------------------------------------------------
(* Claims about the handlers (SpecRoutes, SpecRefresh).                    *)

\* The fetch the handler of thread t called has raised.
HandlerFailed(t) == chan_ret[t].state = "raised" \/ epg_ret[t].state = "raised"

FailureText(t) == IF chan_ret[t].state = "raised" THEN chan_ret[t].exc ELSE epg_ret[t].exc

ErrorPrefixes ==
    {"Error generating playlist: ", "Error generating EPG XML: ",
     "Error generating channels JSON: ", "Error generating status page: ",
     "Error generating debug info: ", "Error forcing refresh: "}

\* C9: on every route a response produced after an internal failure has
\* status 500 and a body carrying the exception text.
C9_FailureIs500 ==
    \A t \in Threads :
        (pc[t] = "responded" /\ HandlerFailed(t)) =>
            /\ response[t].status = 500
            /\ \E prefix \in ErrorPrefixes : response[t].body = prefix \o FailureText(t)

\* C10: a successful /refresh reports channel and EPG results of fan-outs
\* that started after its own clear step.
C10_RefreshRebuilds ==
    \A t \in Threads :
        (pc[t] = "responded" /\ route[t] = "/refresh" /\ response[t].status = 200) =>
            /\ t \notin g_got_pre[t].chan
            /\ t \notin g_got_pre[t].epg

----------------------------------------------------------------------------
(* The background refresher                                                *)

\* The fetch that the refresher thread t called for the channel cache has
\* returned a list to it.
RefresherChannelsReturned(t) ==
    /\ route[t] = "background_refresher"
    /\ pc[t] \in {"chan_ret", "epg_fanout", "epg_ret"}
    /\ chan_ret[t].state = "ok"
    /\ needs_refresh[t].channels

\* The refresher thread t has come back from the fetch it called for the
\* EPG cache.
RefresherEpgReturned(t) ==
    /\ route[t] = "background_refresher"
    /\ pc[t] = "epg_ret"
    /\ needs_refresh[t].epg

\* C11: whenever a check of the background refresher finds the channel
\* cache (respectively the EPG cache) older than 75% of CACHE_DURATION, the
\* fetch that check calls performs a new fan-out over the providers and
\* installs a fresh entry with a later expiry than the one the check read,
\* also when the entry it read had not yet expired.
C11_DueCheckRefetches ==
    \A t \in Threads :
        /\ RefresherChannelsReturned(t) =>
              /\ ~g_check[t].hit
              /\ "all_channels" \in DOMAIN cache_expiry
              /\ cache_expiry["all_channels"] > g_bg[t].channels
        /\ RefresherEpgReturned(t) =>
              /\ "all_epg" \in DOMAIN cache_expiry
              /\ cache_expiry["all_epg"] > g_bg[t].epg

\* C12: a cache entry populated a ticks before a check is judged due for
\* refresh iff a > 0.75 * CACHE_DURATION, the age being computed as
\* now - (expiry - CACHE_DURATION); with a duration of 1000 an entry
\* populated 751 ago is due and one populated 740 ago is not.
C12_RefreshThreshold ==
    /\ \A t \in Threads :
          g_bg[t].done =>
            /\ g_bg_installed[t].channels # -1 =>
                  (needs_refresh[t].channels <=>
                     4 * (g_bg[t].at - g_bg_installed[t].channels) > 3 * CACHE_DURATION)
            /\ g_bg_installed[t].epg # -1 =>
                  (needs_refresh[t].epg <=>
                     4 * (g_bg[t].at - g_bg_installed[t].epg) > 3 * CACHE_DURATION)
    /\ \A populated \in 0..MaxTime :
          /\ NeedsRefresh(AgeOf(populated + 751, populated + 1000, 1000), 1000)
          /\ ~NeedsRefresh(AgeOf(populated + 740, populated + 1000, 1000), 1000)

\* A check that judged an unexpired channel entry due, and a check that
\* judged an existing EPG entry not due.
C12_Witness ==
    \E t \in Threads :
        /\ g_bg[t].done
        /\ g_bg_installed[t].channels # -1
        /\ needs_refresh[t].channels
        /\ g_bg[t].at < g_bg[t].channels
        /\ g_bg_installed[t].epg # -1
        /\ ~needs_refresh[t].epg

----------------------------------------------------------------------------
(* The merge loop of _get_all_epg_data (src/app.py 448-470) on its own:    *)
(* the futures of two providers whose get_epg_data builds a guide, in the  *)
(* order as_completed yields them.  The loop sees a provider only through  *)
(* the mapping its future holds, so the mappings are drawn over a common   *)
(* pool of channel ids.                                                    *)

EpgIds == {"ch1", "ch2"}

ProgrammeLists == {<<"p1">>, <<"p2", "p3">>}

EpgMappings ==
    {EmptyDict}
    \cup {id :> l : id \in EpgIds, l \in ProgrammeLists}
    \cup {("ch1" :> l1) @@ ("ch2" :> l2) : l1 \in ProgrammeLists, l2 \in ProgrammeLists}

\* What future.result() gives for provider p: it raises, or it is a mapping.
EpgFutures(p) ==
    {[provider |-> p, raises |-> TRUE, epg |-> EmptyDict]}
    \cup {[provider |-> p, raises |-> FALSE, epg |-> m] : m \in EpgMappings}

CompletionOrders ==
    {<<a, b>> : a \in EpgFutures("distrotv"), b \in EpgFutures("stirr")}
    \cup {<<b, a>> : a \in EpgFutures("distrotv"), b \in EpgFutures("stirr")}

\* The for loop of lines 457-465.
RECURSIVE EpgMergeLoop(_, _)
EpgMergeLoop(completed, merged) ==
    IF completed = <<>> THEN merged
    ELSE EpgMergeLoop(Tail(completed), MergeEpg(merged, Head(completed)))

\* _get_all_epg_data, lines 440-472, with the futures completing in the
\* order of call_args.
GetAllEpgData ==
    /\ call_pc = "ready"
    /\ IF _is_cache_valid("all_epg")
       THEN /\ call_result' = epg_cache["all_epg"]
            /\ UNCHANGED <<epg_cache, cache_expiry>>
       ELSE LET merged == EpgMergeLoop(call_args, EmptyDict)
            IN  /\ epg_cache' = DictSet(epg_cache, "all_epg", merged)
                /\ cache_expiry' = DictSet(cache_expiry, "all_epg", now + CACHE_DURATION)
                /\ call_result' = merged
    /\ call_pc' = "done"
    /\ UNCHANGED <<filters, svc_vars, now, channels_cache, allowed, pc, route, chan_vars, epg_vars,
                   response, ghost_vars, pl_vars, bg_vars, call_args, epgagg_vars>>

EpgMergeInit ==
    /\ filters = NoFilters
    /\ AggInit([t \in Threads |-> {}])
    /\ PipelineIdle
    /\ BackgroundIdle
    /\ EpgAggregatorInit(<<>>)
    /\ call_pc = "ready"
    /\ call_args \in CompletionOrders
    /\ call_result = <<>>

EpgMergeNext == GetAllEpgData

SpecEpgMerge == EpgMergeInit /\ [][EpgMergeNext]_vars

\* The future at position i of the completion order supplied channel id.
Supplies(completed, i, id) ==
    ~completed[i].raises /\ id \in DOMAIN completed[i].epg

\* C13: the EPG merge is overwrite, not union: the map cached under
\* 'all_epg' has exactly the channel ids some provider supplied, and holds
\* for each id the programme list of the provider processed last among
\* those that supplied it -- for an id that two providers supplied the
\* later one's list alone, for any other id the list of its one supplier.
C13_EpgMergeOverwrites ==
    call_pc = "done" =>
        /\ "all_epg" \in DOMAIN epg_cache
        /\ LET merged == epg_cache["all_epg"]
               n == Len(call_args)
           IN  /\ DOMAIN merged =
                     {id \in EpgIds : \E i \in 1..n : Supplies(call_args, i, id)}
               /\ \A id \in DOMAIN merged :
                     \E i \in 1..n :
                        /\ Supplies(call_args, i, id)
                        /\ \A j \in (i + 1)..n : ~Supplies(call_args, j, id)
                        /\ merged[id] = call_args[i].epg[id]

\* Both providers supplied ch1 with different programme lists and only the
\* first one supplied ch2.
C13_Witness ==
    /\ call_pc = "done"
    /\ Supplies(call_args, 1, "ch1") /\ Supplies(call_args, 2, "ch1")
    /\ call_args[1].epg["ch1"] # call_args[2].epg["ch1"]
    /\ Supplies(call_args, 1, "ch2") /\ ~Supplies(call_args, 2, "ch2")

----------------------------------------------------------------------------
(* The EPG Aggregator (src/utils/epg_aggregator.py): one thread calling    *)
(* get_combined_epg again and again while set_enabled_sources is called    *)
(* from another thread.  A document is its channel elements and its        *)
(* programme elements in order; a channel element is its id attribute      *)
(* ("" when missing or empty) and a display name telling elements apart.   *)

\* Keys of self.epg_sources (a selection of the eight).
epg_sources == {"plex", "pluto", "stirr"}

\* self.enabled_sources as __init__ leaves it (a selection of the six).
DefaultSources == <<"plex", "pluto">>

\* self.cache_duration = 3600, scaled to ticks.
EPG_CACHE_DURATION == 2

\* How often set_enabled_sources may replace the source set in one run.
MaxSets == 1

ElA1 == [name |-> "A1", id |-> "a"]

ElA2 == [name |-> "A2", id |-> "a"]

ElB == [name |-> "B", id |-> "b"]

ElNoId == [name |-> "N", id |-> ""]

\* What fetch_source returns for a known source: (source_name, channels,
\* programmes, None) for a parsed document, (source_name, None, None,
\* message) for any failure.
FetchResults(source_name) ==
    IF source_name \notin epg_sources
    THEN {[name |-> source_name, channels |-> <<>>, programmes |-> <<>>,
           error |-> "Unknown source"]}
    ELSE {[name |-> source_name, channels |-> <<>>, programmes |-> <<>>,
           error |-> "Timeout"],
          [name |-> source_name, channels |-> <<ElA1, ElB>>, programmes |-> <<"p1", "p2">>,
           error |-> ""],
          [name |-> source_name, channels |-> <<ElA2, ElNoId>>, programmes |-> <<"p1">>,
           error |-> ""],
          [name |-> source_name, channels |-> <<ElA1, ElA2>>, programmes |-> <<>>,
           error |-> ""]}

\* The arguments set_enabled_sources is called with.
SourceLists == {<<"stirr">>, <<"bogus">>, <<"bogus", "plex">>}

AddChannelMutNoDedup(channel, doc_channels, added) ==
    IF channel.id # ""
    THEN <<Append(doc_channels, channel), added \cup {channel.id}>>
    ELSE <<doc_channels, added>>

\* Lines 134-138 for one channel element.
AddChannel(channel, doc_channels, added) ==
    IF channel.id # "" /\ channel.id \notin added
    THEN <<Append(doc_channels, channel), added \cup {channel.id}>>
    ELSE <<doc_channels, added>>

\* The for loop of lines 133-138: <<root's channel elements, channels_added>>.
RECURSIVE AddChannels(_, _, _)
AddChannels(channels, doc_channels, added) ==
    IF channels = <<>> THEN <<doc_channels, added>>
    ELSE LET step == AddChannel(Head(channels), doc_channels, added)
         IN  AddChannels(Tail(channels), step[1], step[2])

\* The for loop of lines 142-144.
RECURSIVE AddProgrammes(_, _)
AddProgrammes(programmes, doc_programmes) ==
    IF programmes = <<>> THEN doc_programmes
    ELSE AddProgrammes(Tail(programmes), Append(doc_programmes, Head(programmes)))

\* Indices 1..n of the submitted futures, built eagerly.
RECURSIVE Indices(_)
Indices(n) == IF n = 0 THEN {} ELSE Indices(n - 1) \cup {n}

\* get_combined_epg, lines 58-63 and 65-124: the cache test under the lock,
\* then either the cached document is returned or one future per enabled
\* source is submitted.
GetCombinedEpgBegin(fr) ==
    /\ ea_pc = "idle"
    /\ force_refresh_arg' = fr
    /\ g_ea_call' = <<g_ea_epoch, enabled_sources>>
    /\ IF ~fr /\ epgagg_cache.present /\ now < epgagg_expiry
       THEN /\ ea_ret' = epgagg_cache
            /\ ea_pc' = "returned"
            /\ g_ea_ret_prov' = g_ea_cache_prov
            /\ UNCHANGED <<root, channels_added, programmes_count, futures, ea_pending,
                           g_ea_log, g_ea_build>>
       ELSE /\ root' = [channels |-> <<>>, present |-> TRUE, programmes |-> <<>>]
            /\ channels_added' = {}
            /\ programmes_count' = 0
            /\ futures' = enabled_sources
            /\ ea_pending' = Indices(Len(enabled_sources))
            /\ g_ea_log' = <<>>
            /\ g_ea_build' = g_ea_epoch
            /\ ea_pc' = "building"
            /\ UNCHANGED <<ea_ret, g_ea_ret_prov>>
    /\ UNCHANGED <<filters, svc_vars, agg_vars, pl_vars, bg_vars, call_vars, epgagg_cache,
                   epgagg_expiry, enabled_sources, g_ea_epoch, g_ea_cache_prov>>

\* One future is yielded by as_completed (lines 126-151).
SourceCompletes(i, result) ==
    /\ ea_pc = "building"
    /\ i \in ea_pending
    /\ result \in FetchResults(futures[i])
    /\ ea_pending' = ea_pending \ {i}
    /\ g_ea_log' = Append(g_ea_log, result)
    /\ IF result.error # ""
       THEN UNCHANGED <<root, channels_added, programmes_count>>
       ELSE LET added == AddChannels(result.channels, root.channels, channels_added)
            IN  /\ root' = [channels |-> added[1], present |-> TRUE,
                            programmes |-> AddProgrammes(result.programmes, root.programmes)]
                /\ channels_added' = added[2]
                /\ programmes_count' = programmes_count + Len(result.programmes)
    /\ UNCHANGED <<filters, svc_vars, agg_vars, pl_vars, bg_vars, call_vars, epgagg_cache,
                   epgagg_expiry, enabled_sources, ea_pc, force_refresh_arg, futures, ea_ret,
                   g_ea_epoch, g_ea_build, g_ea_call, g_ea_cache_prov, g_ea_ret_prov>>

\* Lines 153-172 once every future has been consumed: the document is
\* serialised, installed under the lock and returned.
FinishBuild ==
    /\ ea_pc = "building"
    /\ ea_pending = {}
    /\ epgagg_cache' = root
    /\ epgagg_expiry' = now + EPG_CACHE_DURATION
    /\ ea_ret' = root
    /\ ea_pc' = "returned"
    /\ g_ea_cache_prov' = <<futures, g_ea_build, g_ea_log>>
    /\ g_ea_ret_prov' = <<futures, g_ea_build, g_ea_log>>
    /\ UNCHANGED <<filters, svc_vars, agg_vars, pl_vars, bg_vars, call_vars, enabled_sources,
                   force_refresh_arg, root, channels_added, programmes_count, futures,
                   ea_pending, g_ea_log, g_ea_epoch, g_ea_build, g_ea_call>>

\* The caller has the document; the locals of the call are gone.
EpgCallEnds ==
    /\ ea_pc = "returned"
    /\ ea_pc' = "idle"
    /\ force_refresh_arg' = FALSE
    /\ root' = NoDocument
    /\ channels_added' = {}
    /\ programmes_count' = 0
    /\ futures' = <<>>
    /\ ea_ret' = NoDocument
    /\ g_ea_log' = <<>>
    /\ g_ea_build' = 0
    /\ g_ea_call' = <<0, <<>>>>
    /\ g_ea_ret_prov' = NoProvenance
    /\ UNCHANGED <<filters, svc_vars, agg_vars, pl_vars, bg_vars, call_vars, epgagg_cache,
                   epgagg_expiry, enabled_sources, ea_pending, g_ea_epoch, g_ea_cache_prov>>

\* valid_sources = [s for s in sources if s in self.epg_sources]
ValidSources(sources) == SelectSeq(sources, LAMBDA src : src \in epg_sources)

\* set_enabled_sources (lines 181-190), called from another thread.
set_enabled_sources(sources) ==
    /\ g_ea_epoch < MaxSets
    /\ LET valid_sources == ValidSources(sources)
       IN  IF valid_sources # <<>>
           THEN /\ enabled_sources' = valid_sources
                /\ epgagg_cache' = NoDocument
                /\ epgagg_expiry' = 0
                /\ g_ea_epoch' = g_ea_epoch + 1
                /\ g_ea_cache_prov' = NoProvenance
           ELSE UNCHANGED <<enabled_sources, epgagg_cache, epgagg_expiry, g_ea_epoch,
                            g_ea_cache_prov>>
    /\ UNCHANGED <<filters, svc_vars, agg_vars, pl_vars, bg_vars, call_vars, ea_pc, force_refresh_arg,
                   root, channels_added, programmes_count, futures, ea_pending, ea_ret,
                   g_ea_log, g_ea_build, g_ea_call, g_ea_ret_prov>>

EpgAggregatorSpecInit ==
    /\ filters = NoFilters
    /\ AggInit([t \in Threads |-> {}])
    /\ PipelineIdle
    /\ BackgroundIdle
    /\ CallIdle
    /\ EpgAggregatorInit(DefaultSources)

EpgAggregatorNext ==
    \/ \E fr \in BOOLEAN : GetCombinedEpgBegin(fr)
    \/ \E i \in 1..2 : \E src \in epg_sources : \E result \in FetchResults(src) :
          SourceCompletes(i, result)
    \/ FinishBuild
    \/ EpgCallEnds
    \/ \E sources \in SourceLists : set_enabled_sources(sources)
    \/ Tick

SpecEpgAggregator == EpgAggregatorSpecInit /\ [][EpgAggregatorNext]_vars

\* The results of the sources that were fetched successfully, in the order
\* in which the build processed them.
RECURSIVE Successful(_)
Successful(log) ==
    IF log = <<>> THEN <<>>
    ELSE IF Head(log).error = "" THEN <<Head(log)>> \o Successful(Tail(log))
    ELSE Successful(Tail(log))

RECURSIVE AllChannelsOf(_)
AllChannelsOf(results) ==
    IF results = <<>> THEN <<>> ELSE Head(results).channels \o AllChannelsOf(Tail(results))

RECURSIVE AllProgrammesOf(_)
AllProgrammesOf(results) ==
    IF results = <<>> THEN <<>> ELSE Head(results).programmes \o AllProgrammesOf(Tail(results))

RECURSIVE SumProgrammes(_)
SumProgrammes(results) ==
    IF results = <<>> THEN 0 ELSE Len(Head(results).programmes) + SumProgrammes(Tail(results))

\* C14: in every document get_combined_epg returns, no two channel
\* elements have the same id and each is the first element processed with
\* its id; the programme elements are those of all successfully fetched
\* sources, in order, their number the sum of the sources' programme
\* counts; a failed source contributes nothing and the others are merged.
C14_CombinedEpgMerge ==
    ea_pc = "returned" =>
        LET doc == ea_ret
            good == Successful(g_ea_ret_prov[3])
            offered == AllChannelsOf(good)
        IN  /\ doc.present
            /\ \A i, j \in 1..Len(doc.channels) :
                  i # j => doc.channels[i].id # doc.channels[j].id
            /\ \A i \in 1..Len(doc.channels) :
                  \E k \in 1..Len(offered) :
                     /\ offered[k] = doc.channels[i]
                     /\ \A l \in 1..(k - 1) : offered[l].id # offered[k].id
            /\ \A k \in 1..Len(offered) :
                  offered[k].id # "" =>
                     \E i \in 1..Len(doc.channels) : doc.channels[i].id = offered[k].id
            /\ Len(doc.programmes) = SumProgrammes(good)
            /\ doc.programmes = AllProgrammesOf(good)

\* A returned document built from one failed source and one source whose
\* two channel elements share an id, or from two sources offering the same
\* id and the same programme.
C14_Witness ==
    /\ ea_pc = "returned"
    /\ Len(g_ea_ret_prov[3]) = 2
    /\ g_ea_ret_prov[3][1].error = ""
    /\ g_ea_ret_prov[3][2].error = ""
    /\ g_ea_ret_prov[3][1].channels = <<ElA2, ElNoId>>
    /\ g_ea_ret_prov[3][2].channels = <<ElA1, ElB>>
    /\ ea_ret.channels = <<ElA2, ElB>>
    /\ ea_ret.programmes = <<"p1", "p1", "p2">>

\* C15: once set_enabled_sources(S) with at least one known name has
\* returned, a get_combined_epg(force_refresh=False) that begins afterwards
\* returns a document built from the source list in force when it began,
\* never one built from the list that was replaced -- also when a build
\* that began before the replacement installs its result after it.
C15_ReplacedSourcesInvalidate ==
    (ea_pc = "returned" /\ ~force_refresh_arg /\ g_ea_call[1] >= 1) =>
        g_ea_ret_prov[1] = g_ea_call[2]

----------------------------------------------------------------------------
(* The EPG Fallback Manager (src/utils/epg_fallback.py).  Channel ids that *)
(* _map_channel_id takes apart are sequences of one-character strings.     *)

\* The call harness at rest in every part but the call under study.
CallInit(args) ==
    /\ filters = NoFilters
    /\ AggInit([t \in Threads |-> {}])
    /\ PipelineIdle
    /\ BackgroundIdle
    /\ EpgAggregatorInit(<<>>)
    /\ call_pc = "ready"
    /\ call_args \in args
    /\ call_result = <<>>

\* Everything a call under study leaves alone.
call_frame == <<filters, svc_vars, agg_vars, pl_vars, bg_vars, call_args, epgagg_vars>>

\* str.startswith
StartsWith(text, prefix) ==
    Len(text) >= Len(prefix) /\ SubSeq(text, 1, Len(prefix)) = prefix

\* The position of the first / last occurrence of character c in text, 0 if none.
RECURSIVE FindFrom(_, _, _)
FindFrom(text, c, i) ==
    IF i > Len(text) THEN 0
    ELSE IF text[i] = c THEN i
    ELSE FindFrom(text, c, i + 1)

RECURSIVE FindBack(_, _, _)
FindBack(text, c, i) ==
    IF i = 0 THEN 0
    ELSE IF text[i] = c THEN i
    ELSE FindBack(text, c, i - 1)

SplitOnceMutLast(text, c) ==
    LET i == FindBack(text, c, Len(text))
    IN  IF i = 0 THEN <<text>>
        ELSE <<SubSeq(text, 1, i - 1), SubSeq(text, i + 1, Len(text))>>

\* text.split(c, 1)
SplitOnce(text, c) ==
    LET i == FindFrom(text, c, 1)
    IN  IF i = 0 THEN <<text>>
        ELSE <<SubSeq(text, 1, i - 1), SubSeq(text, i + 1, Len(text))>>

\* f"{provider_name}-"
DashPrefix(provider_name) ==
    CASE provider_name = "pluto" -> <<"p", "l", "u", "t", "o", "-">>
      [] provider_name = "plex" -> <<"p", "l", "e", "x", "-">>
      [] provider_name = "tubi" -> <<"t", "u", "b", "i", "-">>
      [] provider_name = "xumo" -> <<"x", "u", "m", "o", "-">>
      [] provider_name = "samsung" -> <<"s", "a", "m", "s", "u", "n", "g", "-">>
      [] provider_name = "distrotv" -> <<"d", "i", "s", "t", "r", "o", "t", "v", "-">>
      [] provider_name = "lg" -> <<"l", "g", "-">>
      [] provider_name = "stirr" -> <<"s", "t", "i", "r", "r", "-">>
      [] OTHER -> <<"-">>

\* return f"{p}-{external_id}" if not external_id.startswith(f"{p}-") else external_id
PrefixUnlessPrefixed(external_id, provider_name) ==
    IF ~StartsWith(external_id, DashPrefix(provider_name))
    THEN DashPrefix(provider_name) \o external_id
    ELSE external_id

\* _map_channel_id, lines 149-176.
_map_channel_id(external_id, provider_name) ==
    IF provider_name = "pluto" THEN PrefixUnlessPrefixed(external_id, provider_name)
    ELSE IF provider_name = "plex"
    THEN IF FindFrom(external_id, "-", 1) # 0 /\ ~StartsWith(external_id, DashPrefix("plex"))
            /\ Len(SplitOnce(external_id, "-")) = 2
         THEN DashPrefix("plex") \o SplitOnce(external_id, "-")[2]
         ELSE PrefixUnlessPrefixed(external_id, provider_name)
    ELSE IF provider_name = "tubi" THEN PrefixUnlessPrefixed(external_id, provider_name)
    ELSE IF provider_name = "xumo"
    THEN IF ~StartsWith(external_id, DashPrefix("xumo")) THEN external_id ELSE external_id
    ELSE IF provider_name \in {"samsung", "distrotv", "lg", "stirr"}
    THEN PrefixUnlessPrefixed(external_id, provider_name)
    ELSE external_id

\* The providers _map_channel_id names, and one it does not.
MappedProviders ==
    {"pluto", "plex", "tubi", "xumo", "samsung", "distrotv", "lg", "stirr", "roku"}

\* The pieces external ids are put together from for provider p.
IdPieces(provider_name) ==
    {<<>>, <<"-">>, <<"a">>, <<"a", "-">>, <<"b", "1">>, DashPrefix(provider_name),
     SubSeq(DashPrefix(provider_name), 1, Len(DashPrefix(provider_name)) - 1)}

\* How many pieces an external id has at most.
MaxPieces == 3

RECURSIVE PieceIds(_, _)
PieceIds(provider_name, n) ==
    IF n = 0 THEN {<<>>}
    ELSE {piece \o rest : piece \in IdPieces(provider_name),
                          rest \in PieceIds(provider_name, n - 1)}

\* The non-empty ids (_parse_xmltv skips an empty channel attribute).
ExternalIds(provider_name) == PieceIds(provider_name, MaxPieces) \ {<<>>}

MapChannelId ==
    /\ call_pc = "ready"
    /\ call_result' = _map_channel_id(call_args[1], call_args[2])
    /\ call_pc' = "done"
    /\ UNCHANGED call_frame

MapChannelIdInit ==
    /\ CallInit(UNION {{<<external_id, provider_name>> :
                           external_id \in ExternalIds(provider_name)} :
                       provider_name \in MappedProviders})

MapChannelIdNext == MapChannelId

SpecMapChannelId == MapChannelIdInit /\ [][MapChannelIdNext]_vars

\* C17: _map_channel_id maps a Plex id <lineup>-<channel> to
\* plex-<channel>, the part after the first hyphen; maps a Pluto, Samsung,
\* DistroTV, LG, Stirr or Tubi id x to <provider>-x unless x already starts
\* with that prefix, and then to x; returns Xumo ids unchanged; and maps its
\* own result to itself.
C17_MapChannelId ==
    call_pc = "done" =>
        LET x == call_args[1]
            provider_name == call_args[2]
            n == Len(x)
        IN  /\ provider_name = "plex" =>
                  \A k \in 1..n :
                     (x[k] = "-" /\ \A j \in 1..(k - 1) : x[j] # "-") =>
                        call_result = <<"p", "l", "e", "x", "-">> \o SubSeq(x, k + 1, n)
            /\ provider_name \in {"pluto", "samsung", "distrotv", "lg", "stirr", "tubi"} =>
                  IF StartsWith(x, DashPrefix(provider_name))
                  THEN call_result = x
                  ELSE call_result = DashPrefix(provider_name) \o x
            /\ provider_name = "xumo" => call_result = x
            /\ _map_channel_id(call_result, provider_name) = call_result

\* A Plex id with two hyphens and a lineup that is not "plex".
C17_Witness ==
    /\ call_pc = "done"
    /\ call_args = <<<<"a", "-", "b", "1", "-">>, "plex">>
    /\ call_result = <<"p", "l", "e", "x", "-", "b", "1", "-">>

\* self.fallback_sources: the providers each tier has a URL for (lines 26-43).
fallback_sources(source_name) ==
    CASE source_name = "epgshare01" -> {"plex", "lg", "distrotv"}
      [] source_name = "mjh" -> {"pluto", "plex", "samsung", "distrotv", "stirr"}
      [] source_name = "buddychewchew" -> {"tubi", "xumo"}

TierOrderMutShareFirst == <<"epgshare01", "mjh", "buddychewchew">>

\* for source_name in ['mjh', 'buddychewchew', 'epgshare01'] (line 56)
TierOrder == <<"mjh", "buddychewchew", "epgshare01">>

\* {ch.get('id', '') for ch in channels if ch.get('id')} (line 53)
ChannelIdsOf(channels) ==
    {channels[i].id : i \in 1..Len(channels)} \ {""}

\* Lines 61-64: the entries of epg_data whose key is in channel_ids.
RECURSIVE FilterEpg(_, _, _)
FilterEpg(epg_data, todo, channel_ids) ==
    IF todo = {} THEN EmptyDict
    ELSE LET channel_id == CHOOSE k \in todo : TRUE
             rest == FilterEpg(epg_data, todo \ {channel_id}, channel_ids)
         IN  IF channel_id \in channel_ids
             THEN DictSet(rest, channel_id, epg_data[channel_id])
             ELSE rest

\* The for loop of lines 56-68; fetched[source_name] is what
\* _fetch_source_epg(source_name, provider_name) returns.
RECURSIVE FallbackLoop(_, _, _, _)
FallbackLoop(tiers, provider_name, channel_ids, fetched) ==
    IF tiers = <<>> THEN EmptyDict
    ELSE LET source_name == Head(tiers)
             epg_data == fetched[source_name]
             filtered_epg == FilterEpg(epg_data, DOMAIN epg_data, channel_ids)
         IN  IF /\ provider_name \in fallback_sources(source_name)
                /\ DOMAIN epg_data # {}
                /\ DOMAIN filtered_epg # {}
             THEN filtered_epg
             ELSE FallbackLoop(Tail(tiers), provider_name, channel_ids, fetched)

\* get_fallback_epg, lines 51-70.
get_fallback_epg(provider_name, channels, fetched) ==
    FallbackLoop(TierOrder, provider_name, ChannelIdsOf(channels), fetched)

\* Providers in two tiers, in one tier and in none.
FallbackProviders == {"plex", "distrotv", "tubi", "stirr", "roku"}

\* The channel lists handed to get_fallback_epg; "" is a missing or empty id.
FallbackChannels ==
    {<<>>, <<[id |-> "c1"]>>, <<[id |-> "c1"], [id |-> "c2"]>>, <<[id |-> ""], [id |-> "c2"]>>}

\* What _fetch_source_epg returns: {} when the download or the parse fails
\* or the guide has no programme, else channel id -> programmes.
TierData(provider_name, source_name) ==
    IF provider_name \notin fallback_sources(source_name) THEN {EmptyDict}
    ELSE {EmptyDict, "c1" :> <<"p1">>, "c2" :> <<"p2">>, "c3" :> <<"p1">>,
          ("c1" :> <<"p2", "p3">>) @@ ("c3" :> <<"p1">>)}

FallbackArgs ==
    {<<provider_name, channels, ("mjh" :> m) @@ ("buddychewchew" :> b) @@ ("epgshare01" :> e)>> :
        provider_name \in FallbackProviders, channels \in FallbackChannels,
        m \in UNION {TierData(q, "mjh") : q \in FallbackProviders},
        b \in UNION {TierData(q, "buddychewchew") : q \in FallbackProviders},
        e \in UNION {TierData(q, "epgshare01") : q \in FallbackProviders}}

FallbackInit ==
    CallInit({args \in FallbackArgs :
                \A source_name \in {"mjh", "buddychewchew", "epgshare01"} :
                   args[3][source_name] \in TierData(args[1], source_name)})

GetFallbackEpg ==
    /\ call_pc = "ready"
    /\ call_result' = get_fallback_epg(call_args[1], call_args[2], call_args[3])
    /\ call_pc' = "done"
    /\ UNCHANGED call_frame

FallbackNext == GetFallbackEpg

SpecFallback == FallbackInit /\ [][FallbackNext]_vars

\* Tier source_name lists the provider and has a programme for a supplied id.
Yields(source_name) ==
    /\ call_args[1] \in fallback_sources(source_name)
    /\ \E i \in 1..Len(call_args[2]) :
          /\ call_args[2][i].id \in DOMAIN call_args[3][source_name]
          /\ call_args[3][source_name][call_args[2][i].id] # <<>>

\* The result is tier source_name's programmes for the supplied ids.
ResultIsTier(source_name) ==
    /\ DOMAIN call_result =
          DOMAIN call_args[3][source_name]
             \cap {call_args[2][i].id : i \in 1..Len(call_args[2])}
    /\ \A id \in DOMAIN call_result : call_result[id] = call_args[3][source_name][id]

\* C16: get_fallback_epg considers the tiers in the order mjh,
\* buddychewchew, epgshare01 and returns the programmes of one tier, the
\* first in that order that lists the provider and yields a programme for a
\* supplied channel id; every key returned is the id of a supplied channel;
\* the result is empty when no tier yields a match or lists the provider.
C16_FallbackSelection ==
    call_pc = "done" =>
        /\ \A id \in DOMAIN call_result :
              \E i \in 1..Len(call_args[2]) : call_args[2][i].id = id
        /\ IF Yields("mjh") THEN ResultIsTier("mjh")
           ELSE IF Yields("buddychewchew") THEN ResultIsTier("buddychewchew")
           ELSE IF Yields("epgshare01") THEN ResultIsTier("epgshare01")
           ELSE call_result = EmptyDict

\* Plex is listed by mjh and epgshare01 and both have a programme for c1:
\* the list of mjh is returned, and the channel without programmes is absent.
C16_Witness ==
    /\ call_pc = "done"
    /\ call_args[1] = "plex"
    /\ call_args[2] = <<[id |-> "c1"], [id |-> "c2"]>>
    /\ call_args[3]["mjh"] = ("c1" :> <<"p2", "p3">>) @@ ("c3" :> <<"p1">>)
    /\ call_args[3]["epgshare01"] = ("c1" :> <<"p1">>)
    /\ call_result = ("c1" :> <<"p2", "p3">>)

----------------------------------------------------------------------------
(* GitFreetvProvider (src/providers/git_providers.py): file names of the   *)
(* Free-TV repository, as sequences of one-character strings.              *)

AsciiLower == <<"a", "b", "c", "d", "e", "f", "g", "h", "i", "j", "k", "l", "m", "n", "o", "p", "q", "r", "s", "t", "u", "v", "w", "x", "y", "z">>

AsciiUpper == <<"A", "B", "C", "D", "E", "F", "G", "H", "I", "J", "K", "L", "M", "N", "O", "P", "Q", "R", "S", "T", "U", "V", "W", "X", "Y", "Z">>

\* A cased character (the file names are ASCII).
IsCased(c) == FindFrom(AsciiLower, c, 1) # 0 \/ FindFrom(AsciiUpper, c, 1) # 0

ToLower(c) ==
    IF FindFrom(AsciiUpper, c, 1) # 0 THEN AsciiLower[FindFrom(AsciiUpper, c, 1)] ELSE c

ToUpper(c) ==
    IF FindFrom(AsciiLower, c, 1) # 0 THEN AsciiUpper[FindFrom(AsciiLower, c, 1)] ELSE c

\* str.lower()
RECURSIVE str_lower(_)
str_lower(text) ==
    IF text = <<>> THEN <<>> ELSE <<ToLower(Head(text))>> \o str_lower(Tail(text))

\* str.title(): a cased character is upper-cased after an uncased one (or
\* at the start) and lower-cased after a cased one.
RECURSIVE TitleFrom(_, _)
TitleFrom(text, previous_is_cased) ==
    IF text = <<>> THEN <<>>
    ELSE <<IF previous_is_cased THEN ToLower(Head(text)) ELSE ToUpper(Head(text))>>
         \o TitleFrom(Tail(text), IsCased(Head(text)))

str_title(text) == TitleFrom(text, FALSE)

\* str.endswith
EndsWith(text, suffix) ==
    Len(text) >= Len(suffix)
    /\ SubSeq(text, Len(text) - Len(suffix) + 1, Len(text)) = suffix

\* sub in text
Contains(text, sub) ==
    \E i \in 0..(Len(text) - Len(sub)) : SubSeq(text, i + 1, i + Len(sub)) = sub

\* str.replace(old, new): every non-overlapping occurrence, left to right.
RECURSIVE str_replace(_, _, _)
str_replace(text, old, new) ==
    IF text = <<>> THEN <<>>
    ELSE IF StartsWith(text, old)
    THEN new \o str_replace(SubSeq(text, Len(old) + 1, Len(text)), old, new)
    ELSE <<Head(text)>> \o str_replace(Tail(text), old, new)

\* self.country_mapping (lines 353-401), a selection: <<code, variants>>.
country_mapping ==
    {<<<<"u", "s">>, {<<"u", "s">>, <<"u", "s", "a">>, <<"u", "n", "i", "t", "e", "d", " ", "s", "t", "a", "t", "e", "s">>, <<"a", "m", "e", "r", "i", "c", "a">>}>>,
     <<<<"a", "u">>, {<<"a", "u">>, <<"a", "u", "s">>, <<"a", "u", "s", "t", "r", "a", "l", "i", "a">>}>>,
     <<<<"i", "n">>, {<<"i", "n">>, <<"i", "n", "d">>, <<"i", "n", "d", "i", "a">>}>>,
     <<<<"f", "r">>, {<<"f", "r">>, <<"f", "r", "a">>, <<"f", "r", "a", "n", "c", "e">>}>>}

PlaylistPrefix == <<"p", "l", "a", "y", "l", "i", "s", "t", "_">>

M3u8Suffix == <<".", "m", "3", "u", "8">>

\* Lines 430-443 of _matches_country_filter: substring matching on the
\* whole lower-cased file name.
SubstringMatch(filename_lower, country_filter) ==
    \/ \E country \in country_filter : Contains(filename_lower, country)
    \/ \E entry \in country_mapping :
          /\ \E variant \in entry[2] : variant \in country_filter
          /\ \/ Contains(filename_lower, entry[1])
             \/ \E variant \in entry[2] : Contains(filename_lower, variant)

\* Lines 412-428: matching on the country part of playlist_<country>.m3u8.
CountryPartMatch(filename_lower, country_filter) ==
    /\ StartsWith(filename_lower, PlaylistPrefix)
    /\ EndsWith(filename_lower, M3u8Suffix)
    /\ LET sliced == SubSeq(filename_lower, 10, Len(filename_lower) - 5)
           country_part == IF Contains(sliced, <<"_">>) THEN SplitOnce(sliced, "_")[1]
                           ELSE sliced
       IN  \/ \E country \in country_filter : country = country_part
           \/ \E entry \in country_mapping :
                 /\ \E variant \in entry[2] : variant \in country_filter
                 /\ \/ entry[1] = country_part
                    \/ \E variant \in entry[2] : variant = country_part

\* _matches_country_filter, lines 405-445.
_matches_country_filter(filename, country_filter) ==
    IF country_filter = {} THEN TRUE
    ELSE LET filename_lower == str_lower(filename)
         IN  IF CountryPartMatch(filename_lower, country_filter) THEN TRUE
             ELSE IF SubstringMatch(filename_lower, country_filter) THEN TRUE
             ELSE FALSE

\* Lines 571-573 of _fetch_and_parse_m3u.
source_name_of(file_name) ==
    LET source_name ==
            str_title(str_replace(str_replace(str_replace(file_name, PlaylistPrefix, <<>>),
                                              M3u8Suffix, <<>>),
                                  <<"_">>, <<" ">>))
    IN  IF str_lower(source_name) = <<"u", "s", "a">> THEN <<"U", "S", "A">> ELSE source_name

\* The country tokens and qualifiers of the file names (<<>>: no qualifier).
CountryTokens ==
    {<<"u", "s">>, <<"u", "s", "a">>, <<"a", "u">>, <<"a", "u", "s", "t", "r", "a", "l", "i", "a">>, <<"a", "m", "e", "r", "i", "c", "a">>, <<"i", "n", "d", "i", "a">>,
     <<"f", "r", "a", "n", "c", "e">>, <<"b", "e", "l", "a", "r", "u", "s">>, <<"c", "a", "n", "a", "d", "a">>, <<"u", "k">>, <<"i", "n">>, <<"r", "u", "s", "s", "i", "a">>}

Qualifiers == {<<>>, <<"v", "o", "d">>, <<"z", "z", "_", "m", "u", "s", "i", "c">>, <<"h", "d">>, <<"2">>}

\* playlist_<token>[_<qualifier>].m3u8
PlaylistFile(token, qualifier) ==
    PlaylistPrefix \o token \o (IF qualifier = <<>> THEN <<>> ELSE <<"_">> \o qualifier)
    \o M3u8Suffix

\* GIT_COUNTRY as _parse_country_filter leaves it (lines 340-351).
CountryFilters ==
    {{}, {<<"u", "s">>}, {<<"u", "s", "a">>}, {<<"a", "m", "e", "r", "i", "c", "a">>}, {<<"a", "u">>}, {<<"i", "n">>}, {<<"c", "a", "n", "a", "d", "a">>}, {<<"f", "r">>, <<"u", "s">>}}

\* <<file name, country filter, token, qualifier>>
FreetvArgs ==
    {<<PlaylistFile(token, qualifier), country_filter, token, qualifier>> :
        token \in CountryTokens, qualifier \in Qualifiers, country_filter \in CountryFilters}

MatchesCountryFilter ==
    /\ call_pc = "ready"
    /\ call_result' = _matches_country_filter(call_args[1], call_args[2])
    /\ call_pc' = "done"
    /\ UNCHANGED call_frame

CountryFilterInit == CallInit(FreetvArgs)

CountryFilterNext == MatchesCountryFilter

SpecCountryFilter == CountryFilterInit /\ [][CountryFilterNext]_vars

SourceName ==
    /\ call_pc = "ready"
    /\ call_result' = source_name_of(call_args[1])
    /\ call_pc' = "done"
    /\ UNCHANGED call_frame

SourceNameInit == CallInit({args \in FreetvArgs : args[2] = {}})

SourceNameNext == SourceName

SpecSourceName == SourceNameInit /\ [][SourceNameNext]_vars

\* C18: for a file named playlist_usa, an optional _<qualifier> and .m3u8
\* the source name is the literal USA; for any other file it is the rest of
\* the name with underscores replaced by spaces, in title case.
C18_SourceName ==
    call_pc = "done" =>
        IF call_args[3] = <<"u", "s", "a">>
        THEN call_result = <<"U", "S", "A">>
        ELSE call_result =
                str_title(call_args[3]
                          \o (IF call_args[4] = <<>> THEN <<>>
                              ELSE <<" ">> \o str_replace(call_args[4], <<"_">>, <<" ">>)))

\* C19: with a non-empty filter a file playlist_<token>[_<qualifier>].m3u8
\* is accepted iff the token equals a filter token, or equals the code or a
\* variant of a table entry one of whose variants is in the filter; a token
\* that merely contains a filter token or a code is rejected.
C19_CountryMatchExact ==
    (call_pc = "done" /\ call_args[2] # {}) =>
        (call_result <=>
            \/ call_args[3] \in call_args[2]
            \/ \E entry \in country_mapping :
                  /\ entry[2] \cap call_args[2] # {}
                  /\ call_args[3] = entry[1] \/ call_args[3] \in entry[2])

\* ---------------------------------------------------------------------
\* StirrProvider.get_channels (src/providers/stirr_provider.py:290-325)
\* ---------------------------------------------------------------------

\* `if len(channels) < 10` (line 303).
MinNativeChannels == 10

MaxNative == 11
MaxM3u == 2

StirrChannel(name, id) == [name |-> name, id |-> id]

\* What _get_channels_from_api returns: channels distinct by video id
\* (seen_ids, lines 104-116); names are free, so one list repeats a name.
RECURSIVE NativeList(_, _)
NativeList(n, distinct) ==
    IF n = 0 THEN <<>>
    ELSE Append(NativeList(n - 1, distinct),
                StirrChannel(<<AsciiUpper[IF distinct THEN n ELSE 1], "x">>, <<"api", n>>))

NativeLists == {NativeList(n, distinct) : n \in 0..MaxNative, distinct \in BOOLEAN}

\* What _get_channels_from_m3u returns ([] on a failed request, line 216).
M3uChannels ==
    {StirrChannel(<<"A", "X">>, <<"m3u", 1>>),
     StirrChannel(<<"a", "x">>, <<"m3u", 2>>),
     StirrChannel(<<"B", "x">>, <<"m3u", 3>>),
     StirrChannel(<<"Z", "z">>, <<"m3u", 4>>),
     StirrChannel(<<"z", "Z">>, <<"m3u", 5>>)}

RECURSIVE SeqsUpTo(_, _)
SeqsUpTo(S, n) ==
    IF n = 0 THEN {<<>>}
    ELSE LET shorter == SeqsUpTo(S, n - 1)
         IN shorter \cup {Append(q, x) : q \in {r \in shorter : Len(r) = n - 1}, x \in S}

M3uLists == SeqsUpTo(M3uChannels, MaxM3u)

CachedLists == {<<>>, <<StirrChannel(<<"O", "l", "d">>, <<"api", 0>>)>>}

\* <<native list, M3U list, self.channels_cache, cache still fresh>>
StirrArgs ==
    {<<native, m3u, cached, fresh>> :
        native \in NativeLists, m3u \in M3uLists,
        cached \in CachedLists, fresh \in BOOLEAN}

RECURSIVE ExistingNames(_, _)
ExistingNames(channels, i) ==
    IF i > Len(channels) THEN {}
    ELSE {str_lower(channels[i].name)} \cup ExistingNames(channels, i + 1)

\* Variant that also records the names it appends.
RECURSIVE StirrMergeMutSeen(_, _, _, _)
StirrMergeMutSeen(channels, existing_names, m3u_channels, i) ==
    IF i > Len(m3u_channels) THEN channels
    ELSE IF str_lower(m3u_channels[i].name) \notin existing_names
         THEN StirrMergeMutSeen(Append(channels, m3u_channels[i]),
                                existing_names \cup {str_lower(m3u_channels[i].name)},
                                m3u_channels, i + 1)
         ELSE StirrMergeMutSeen(channels, existing_names, m3u_channels, i + 1)

\* Lines 309-311: existing_names is computed once, before the loop.
RECURSIVE StirrMerge(_, _, _, _)
StirrMerge(channels, existing_names, m3u_channels, i) ==
    IF i > Len(m3u_channels) THEN channels
    ELSE IF str_lower(m3u_channels[i].name) \notin existing_names
         THEN StirrMerge(Append(channels, m3u_channels[i]), existing_names, m3u_channels, i + 1)
         ELSE StirrMerge(channels, existing_names, m3u_channels, i + 1)

\* <<returned list, requests to the API, requests for the M3U>>
stirr_get_channels(native, m3u, cached, fresh) ==
    IF cached # <<>> /\ fresh
    THEN <<cached, 0, 0>>
    ELSE IF Len(native) < MinNativeChannels
         THEN IF m3u # <<>>
              THEN <<StirrMerge(native, ExistingNames(native, 1), m3u, 1), 1, 1>>
              ELSE <<native, 1, 1>>
         ELSE <<native, 1, 0>>

StirrGetChannels ==
    /\ call_pc = "ready"
    /\ call_result' = stirr_get_channels(call_args[1], call_args[2], call_args[3], call_args[4])
    /\ call_pc' = "done"
    /\ UNCHANGED call_frame

StirrInit == CallInit(StirrArgs)

StirrNext == StirrGetChannels

SpecStirr == StirrInit /\ [][StirrNext]_vars

\* The M3U channels whose name equals, ignoring case, the name of a native one.
NameClashes(native, m3u) ==
    Cardinality({j \in 1..Len(m3u) :
        \E i \in 1..Len(native) : str_lower(native[i].name) = str_lower(m3u[j].name)})

\* C20: when the API is asked and yields n < 10 channels and the M3U yields
\* m channels of which k share a name, ignoring case, with a native channel,
\* get_channels returns n + (m - k) channels, the n native ones first in
\* their order; with 10 or more native channels the M3U is not fetched and
\* the result is the native list.
C20_StirrMergeOnShortfall ==
    (call_pc = "done" /\ call_result[2] = 1) =>
        IF Len(call_args[1]) < MinNativeChannels
        THEN /\ Len(call_result[1]) =
                    Len(call_args[1]) + (Len(call_args[2]) - NameClashes(call_args[1], call_args[2]))
             /\ SubSeq(call_result[1], 1, Len(call_args[1])) = call_args[1]
        ELSE /\ call_result[3] = 0
             /\ call_result[1] = call_args[1]

\* A shortfall merged with an M3U list holding a clash and a repeated new name.
C20_Witness ==
    /\ call_pc = "done"
    /\ call_result[2] = 1
    /\ Len(call_args[1]) = MinNativeChannels - 1
    /\ Len(call_args[2]) = 2
    /\ NameClashes(call_args[1], call_args[2]) = 1
    /\ Len(call_result[1]) = MinNativeChannels

----------------------------------------------------------------------------
(* GitIptvProvider (src/providers/git_providers.py 150-314) behind the     *)
(* aggregator.  A playlist entry is what lines 173-201 take from an        *)
(* #EXTINF line and the URL line after it:                                 *)
(* <<attributes, channel_name, url_line>>.                                 *)

\* f"{n}" of a small int.
IntStr(n) == <<"0", "1", "2", "3", "4", "5", "6", "7", "8", "9">>[n + 1]

\* attributes.get(key, default)
AttrGet(attributes, key, default) ==
    IF key \in DOMAIN attributes THEN attributes[key] ELSE default

\* Lines 210-222: the record of one entry when len(channels) = index.
GitChannel(entry, index, source_name) ==
    LET channel_id == AttrGet(entry[1], "tvg-id", "git-iptv-" \o IntStr(index))
    IN  Channel("git-iptv-" \o channel_id, entry[2], entry[3],
                AttrGet(entry[1], "tvg-logo", ""), source_name, NoKey, "", NoKey)

\* The while loop of GitIptvProvider._parse_m3u_content over the entries of one file.
RECURSIVE _parse_m3u_content(_, _, _)
_parse_m3u_content(entries, source_name, channels) ==
    IF entries = <<>> THEN channels
    ELSE LET entry == Head(entries)
             channel == GitChannel(entry, Len(channels), source_name)
         IN  IF entry[3] = "" \/ Strip(entry[2]) = <<>>
             THEN _parse_m3u_content(Tail(entries), source_name, channels)
             ELSE IF validate_channel(channel)
             THEN _parse_m3u_content(Tail(entries), source_name,
                                     Append(channels, normalize_channel(channel)))
             ELSE _parse_m3u_content(Tail(entries), source_name, channels)

EntryNoId1 == <<EmptyDict, TxtTest, "http://s">>

EntryNoId2 == <<EmptyDict, TxtBee, "http://s2">>

EntryEmptyId1 == <<("tvg-id" :> ""), TxtNews, "http://s3">>

EntryEmptyId2 == <<("tvg-id" :> ""), TxtBee, "http://s4">>

EntryIdA == <<("tvg-id" :> "a.us"), TxtTest, "http://s5">>

EntryIdB == <<("tvg-id" :> "b.us"), TxtNews, "http://s6">>

EntryIdASecond == <<("tvg-id" :> "a.us"), TxtAdult, "http://s7">>

EntryNoUrl == <<("tvg-id" :> "c.us"), TxtBee, "">>

\* The .m3u files of the repository directory: <<title-cased file name, entries>>.
GitFiles ==
    {<<TxtNews, <<EntryIdA, EntryIdB>>>>,
     <<TxtNews, <<EntryNoUrl, EntryNoId1>>>>,
     <<TxtAdult, <<EntryNoId2>>>>,
     <<TxtNews, <<EntryEmptyId1, EntryEmptyId2>>>>,
     <<TxtAdult, <<EntryIdASecond>>>>}

\* Lines 297-306: the files' channels in the order their futures complete.
GitIptvChannels(completed) ==
    IF completed = <<>> THEN <<>>
    ELSE IF Len(completed) = 1
    THEN _parse_m3u_content(completed[1][2], completed[1][1], <<>>)
    ELSE _parse_m3u_content(completed[1][2], completed[1][1], <<>>)
         \o _parse_m3u_content(completed[2][2], completed[2][1], <<>>)

\* Directory listings of up to two files, in each completion order.
GitDirectories ==
    {<<>>} \cup {<<f>> : f \in GitFiles}
    \cup {<<f, g>> : <<f, g>> \in {pair \in GitFiles \X GitFiles : pair[1] # pair[2]}}

\* GitIptvProvider.get_channels returns a list; its own except clause makes
\* every failure [].
GitChannelOutcomes ==
    {[channels |-> GitIptvChannels(completed), raises |-> FALSE] : completed \in GitDirectories}

GitRoutes == [t \in Threads |-> IF t = "t1" THEN {"/channels"} ELSE {}]

\* ENABLED_PROVIDERS=git_iptv
GitInit ==
    /\ filters = NoFilters
    /\ AggCore(GitRoutes)
    /\ providers = {"git_iptv"}
    /\ WarmerOff
    /\ hung = {}
    /\ distro_feed = <<>>
    /\ AlarmIdle
    /\ LockIdle
    /\ FallbackIdle
    /\ PipelineIdle
    /\ ExtIdle

GitNext ==
    \/ \E t \in Threads, r \in Routes : BeginRequest(t, r)
    \/ \E t \in Threads : CheckChannelsCache(t)
    \/ \E t \in Threads : \E o \in GitChannelOutcomes : ProviderCompletes(t, "git_iptv", o)
    \/ \E t \in Threads : FinishChannels(t)
    \/ \E t \in Threads : Respond(t)
    \/ \E t \in Threads : EndRequest(t)
    \/ Tick

SpecGit == GitInit /\ [][GitNext]_vars

\* No two channels of the list share an id.
UniqueIds(channels) ==
    \A i, j \in 1..Len(channels) : channels[i].id = channels[j].id => i = j

\* C21: in every list cached under 'all_channels' no two channels have the
\* same id, whatever the providers return.
C21_UniqueIds ==
    "all_channels" \in DOMAIN channels_cache => UniqueIds(channels_cache["all_channels"])

----------------------------------------------------------------------------
(* Startup cache warming (src/app.py 73-78 and 81-139).                    *)

\* Lines 84-113: the thread waits for a provider (self.providers does not
\* change after __init__, so the wait ends at once or at max_wait), returns
\* when there is none, and goes on to _get_all_channels_concurrent.
StartupCacheWarmer(t) ==
    /\ warmer = "scheduled"
    /\ pc[t] = "idle"
    /\ "startup_cache_warmer" \in allowed[t]
    /\ IF providers = {}
       THEN /\ warmer' = "done"
            /\ UNCHANGED <<pc, route>>
       ELSE /\ warmer' = "running"
            /\ route' = [route EXCEPT ![t] = "startup_cache_warmer"]
            /\ pc' = [pc EXCEPT ![t] = "chan_check"]
    /\ UNCHANGED <<filters, providers, warm_cache_on_startup, warm_epg_on_startup, hung,
                   distro_feed,
                   alarm_vars, lock_vars, fb_vars, now,
                   cache_vars, allowed, chan_vars, epg_vars, response, ghost_vars,
                   pl_vars, ext_vars>>

\* Lines 115-135: the fetches of the warmer have returned, or the channel
\* fetch raised into the except clause of line 133; the thread ends.
WarmerEnds(t) ==
    /\ route[t] = "startup_cache_warmer"
    /\ \/ pc[t] = "epg_ret"
       \/ pc[t] = "chan_ret" /\ (chan_ret[t].state = "raised" \/ ~warm_epg_on_startup)
    /\ warmer' = "done"
    /\ pc' = [pc EXCEPT ![t] = "idle"]
    /\ route' = [route EXCEPT ![t] = ""]
    /\ UNCHANGED <<filters, providers, warm_cache_on_startup, warm_epg_on_startup, hung,
                   distro_feed,
                   alarm_vars, lock_vars, fb_vars, now,
                   cache_vars, allowed, chan_vars, epg_vars, response, ghost_vars,
                   pl_vars, ext_vars>>

WarmRoutes == [t \in Threads |-> IF t = "t1" THEN {"startup_cache_warmer"} ELSE {}]

\* __init__ for every value of the two flags: line 77 starts the thread
\* only when warm_cache_on_startup is set.
WarmInit ==
    /\ filters = NoFilters
    /\ AggCore(WarmRoutes)
    /\ providers \in {{}, {"xumo"}, Providers}
    /\ warm_cache_on_startup \in BOOLEAN
    /\ warm_epg_on_startup \in BOOLEAN
    /\ warmer = IF warm_cache_on_startup THEN "scheduled" ELSE "off"
    /\ hung = {}
    /\ distro_feed = <<>>
    /\ AlarmIdle
    /\ LockIdle
    /\ FallbackIdle
    /\ PipelineIdle
    /\ ExtIdle

WarmerStep ==
    \/ \E t \in Threads : StartupCacheWarmer(t)
    \/ \E t \in Threads : CheckChannelsCache(t)
    \/ \E t \in Threads, p \in Providers : \E o \in ChannelOutcomes(p) : ProviderCompletes(t, p, o)
    \/ \E t \in Threads : FinishChannels(t)
    \/ \E t \in Threads : CheckEpgCache(t)
    \/ \E t \in Threads, p \in Providers : \E o \in EpgOutcomes(p) : EpgProviderCompletes(t, p, o)
    \/ \E t \in Threads : FinishEpg(t)
    \/ \E t \in Threads : WarmerEnds(t)

WarmNext == WarmerStep

\* The thread is scheduled and every provider call returns.
SpecWarm == WarmInit /\ [][WarmNext]_vars /\ WF_vars(WarmerStep)

WarmerFetchesEpg ==
    \E t \in Threads :
        route[t] = "startup_cache_warmer" /\ pc[t] \in {"epg_fanout", "epg_ret"}

\* C22: with WARM_EPG_ON_STARTUP true and a provider registered the warmer
\* eventually fetches the EPG and 'all_epg' is cached, for either value of
\* WARM_CACHE_ON_STARTUP; with it false the warmer never fetches the EPG.
C22_StartupEpgWarming ==
    /\ (warm_epg_on_startup /\ providers # {}) => <>("all_epg" \in DOMAIN epg_cache)
    /\ ~warm_epg_on_startup => [](~WarmerFetchesEpg)

----------------------------------------------------------------------------
(* The EPG fan-out (src/app.py 450-465) when a provider's get_epg_data     *)
(* does not return.  as_completed(future_to_provider) is called without a  *)
(* timeout and yields a future only once it is done, so                    *)
(* future.result(timeout=self.provider_timeout) is only ever called on a   *)
(* finished future; the with block of line 451 ends by waiting for every   *)
(* worker.                                                                 *)

\* as_completed yields the future of p: the call behind it has returned or raised.
EpgFutureDone(t, p, outcome) ==
    /\ p \notin hung
    /\ EpgProviderCompletes(t, p, outcome)

HangRoutes == [t \in Threads |-> IF t = "t1" THEN {"/epg"} ELSE {}]

HangInit ==
    /\ filters = NoFilters
    /\ AggCore(HangRoutes)
    /\ providers = Providers
    /\ WarmerOff
    /\ hung \in SUBSET Providers
    /\ distro_feed = <<>>
    /\ AlarmIdle
    /\ LockIdle
    /\ FallbackIdle
    /\ PipelineIdle
    /\ ExtIdle

\* The steps of a request once it has arrived.
HangServe ==
    \/ \E t \in Threads : CheckChannelsCache(t)
    \/ \E t \in Threads, p \in Providers : \E o \in ChannelOutcomes(p) : ProviderCompletes(t, p, o)
    \/ \E t \in Threads : FinishChannels(t)
    \/ \E t \in Threads : CheckEpgCache(t)
    \/ \E t \in Threads, p \in Providers : \E o \in EpgOutcomes(p) : EpgFutureDone(t, p, o)
    \/ \E t \in Threads : FinishEpg(t)
    \/ \E t \in Threads : Respond(t)
    \/ \E t \in Threads : EndRequest(t)

HangNext ==
    \/ \E t \in Threads, r \in Routes : BeginRequest(t, r)
    \/ HangServe

\* The handler thread keeps running and every call that can return does.
SpecEpgHang == HangInit /\ [][HangNext]_vars /\ WF_vars(HangServe)

\* C23: a provider whose get_epg_data does not return cannot keep
\* _get_all_epg_data from returning: the fan-out ends, and the merged data
\* of the other providers is cached.
C23_EpgFetchTimeout ==
    \A t \in Threads :
        [](pc[t] = "epg_fanout" =>
              <>(pc[t] = "epg_ret" /\ "all_epg" \in DOMAIN epg_cache))

----------------------------------------------------------------------------
(* The timeout of _fetch_provider_channels (src/app.py 327-378) with       *)
(* several workers in flight.  Under gevent's monkey.patch_all() the       *)
(* workers of the pool are greenlets of the main thread, so signal.signal  *)
(* and signal.alarm succeed in each of them; the process has one SIGALRM   *)
(* handler and one alarm timer.                                            *)

\* int(os.getenv('PROVIDER_TIMEOUT', 45)), scaled to ticks.
PROVIDER_TIMEOUT == 2

\* signal.alarm(seconds): the new deadline replaces a pending one; 0 cancels.
signal_alarm(pending_alarm, seconds) == IF seconds = 0 THEN -1 ELSE now + seconds

\* Lines 332-348 of one worker: the handler is installed, the alarm armed
\* and provider.get_channels() entered.
FetchBegins(p) ==
    /\ fetch_state[p] = "new"
    /\ sig_handler' = p
    /\ alarm' = signal_alarm(alarm, PROVIDER_TIMEOUT)
    /\ fetch_state' = [fetch_state EXCEPT ![p] = "running"]
    /\ fetch_start' = [fetch_start EXCEPT ![p] = now]
    /\ UNCHANGED <<filters, providers, warm_cache_on_startup, warm_epg_on_startup, warmer,
                   hung, distro_feed, fetch_end, lock_vars, fb_vars, agg_vars, pl_vars, ext_vars>>

\* Lines 348-351: get_channels returns and the worker cancels the alarm.
FetchReturns(p) ==
    /\ fetch_state[p] = "running"
    /\ alarm' = signal_alarm(alarm, 0)
    /\ fetch_state' = [fetch_state EXCEPT ![p] = "returned"]
    /\ fetch_end' = [fetch_end EXCEPT ![p] = now]
    /\ UNCHANGED <<filters, providers, warm_cache_on_startup, warm_epg_on_startup, warmer,
                   hung, distro_feed, sig_handler, fetch_start, lock_vars, fb_vars, agg_vars,
                   pl_vars, ext_vars>>

\* Lines 356-360: get_channels raises; the except clause returns [] and
\* leaves the alarm as it is.
FetchRaises(p) ==
    /\ fetch_state[p] = "running"
    /\ fetch_state' = [fetch_state EXCEPT ![p] = "failed"]
    /\ fetch_end' = [fetch_end EXCEPT ![p] = now]
    /\ UNCHANGED <<filters, providers, warm_cache_on_startup, warm_epg_on_startup, warmer,
                   hung, distro_feed, alarm, sig_handler, fetch_start, lock_vars, fb_vars,
                   agg_vars, pl_vars, ext_vars>>

\* The greenlets in which the TimeoutError of timeout_handler can surface:
\* a worker inside the try of line 342, or code outside every such try.
AlarmTargets == {p \in Providers : fetch_state[p] = "running"} \cup {"hub"}

\* The alarm expires: timeout_handler (lines 337-338) raises in the
\* greenlet that is running; a worker so hit returns [] (lines 353-355).
AlarmFires(target) ==
    /\ alarm # -1
    /\ now >= alarm
    /\ target \in AlarmTargets
    /\ alarm' = -1
    /\ IF target \in Providers
       THEN /\ fetch_state' = [fetch_state EXCEPT ![target] = "timed_out"]
            /\ fetch_end' = [fetch_end EXCEPT ![target] = now]
       ELSE UNCHANGED <<fetch_state, fetch_end>>
    /\ UNCHANGED <<filters, providers, warm_cache_on_startup, warm_epg_on_startup, warmer,
                   hung, distro_feed, sig_handler, fetch_start, lock_vars, fb_vars, agg_vars,
                   pl_vars, ext_vars>>

\* Time passes; a signal that is due is delivered first.
AlarmTick ==
    /\ alarm = -1 \/ now < alarm
    /\ Tick

AlarmInit ==
    /\ filters = NoFilters
    /\ AggCore([t \in Threads |-> {}])
    /\ providers = Providers
    /\ WarmerOff
    /\ hung = {}
    /\ distro_feed = <<>>
    /\ AlarmIdle
    /\ LockIdle
    /\ FallbackIdle
    /\ PipelineIdle
    /\ ExtIdle

AlarmNext ==
    \/ \E p \in Providers : FetchBegins(p)
    \/ \E p \in Providers : FetchReturns(p)
    \/ \E p \in Providers : FetchRaises(p)
    \/ \E target \in Providers \cup {"hub"} : AlarmFires(target)
    \/ AlarmTick

SpecAlarm == AlarmInit /\ [][AlarmNext]_vars

\* C24: with several providers in flight no get_channels call outlives
\* PROVIDER_TIMEOUT, neither still running nor having returned its
\* channels: every such call is ended as timed out, whatever alarms the
\* other workers armed or cancelled meanwhile.
C24_TimeoutPerProvider ==
    \A p \in Providers :
        /\ fetch_state[p] = "running" => now - fetch_start[p] <= PROVIDER_TIMEOUT
        /\ fetch_state[p] = "returned" => fetch_end[p] - fetch_start[p] <= PROVIDER_TIMEOUT


\* ---------------------------------------------------------------------------
\* The scope of self.cache_lock (src/app.py 242-248, 384-386, 428-430,
\* 444-446, 468-470, 624-631, 709-712, 723-726).  A thread is "idle", "want"
\* (it has reached a with self.cache_lock statement and waits for the lock),
\* "locked" (inside the with block) or "fetch" (its provider futures are in
\* flight).  lk_block names the with block, lk_todo the calls its handler
\* still has to make, lk_valid the keys for which _is_cache_valid holds.
\* ---------------------------------------------------------------------------

\* The calls a handler makes, in order: /channels, /epg, /clear_cache,
\* /refresh, /debug and one round of the background refresher.
LockPlans ==
    { <<"channels">>, <<"channels", "epg">>, <<"clear">>,
      <<"clear", "channels", "epg">>, <<"channels", "debug">>, <<"age">> }

\* The first with block of a call.
FirstBlock(call) ==
    CASE call = "channels" -> "chan_check"
      [] call = "epg" -> "epg_check"
      [] call = "clear" -> "clear"
      [] call = "debug" -> "debug"
      [] call = "age" -> "age_check"

\* The cache key a check or install block is about.
BlockKey(block) ==
    IF block \in {"chan_check", "chan_install"} THEN "all_channels" ELSE "all_epg"

\* The holder of the lock once thread t leaves a with block: __exit__
\* releases it whether the block returns or falls through.
LockAfterBlockMutHeldOnMiss(t, falls_through) == IF falls_through THEN t ELSE ""

LockAfterBlock(t, falls_through) == ""

\* The thread goes on to the next call of its handler, or the handler ends.
LockProceed(t, todo) ==
    IF todo = <<>>
    THEN /\ lk_pc' = [lk_pc EXCEPT ![t] = "idle"]
         /\ lk_block' = [lk_block EXCEPT ![t] = ""]
         /\ lk_todo' = [lk_todo EXCEPT ![t] = <<>>]
    ELSE /\ lk_pc' = [lk_pc EXCEPT ![t] = "want"]
         /\ lk_block' = [lk_block EXCEPT ![t] = FirstBlock(Head(todo))]
         /\ lk_todo' = [lk_todo EXCEPT ![t] = Tail(todo)]

lock_frame ==
    <<filters, providers, warm_cache_on_startup, warm_epg_on_startup, warmer, hung,
      distro_feed,
      alarm_vars, fb_vars, agg_vars, pl_vars, ext_vars>>

\* A handler starts and reaches its first with statement.
LockCall(t, plan) ==
    /\ lk_pc[t] = "idle"
    /\ LockProceed(t, plan)
    /\ UNCHANGED <<cache_lock, lk_valid, lock_frame>>

\* with self.cache_lock: __enter__ blocks until the lock is free.
LockAcquire(t) ==
    /\ lk_pc[t] = "want"
    /\ cache_lock = ""
    /\ cache_lock' = t
    /\ lk_pc' = [lk_pc EXCEPT ![t] = "locked"]
    /\ UNCHANGED <<lk_block, lk_todo, lk_valid, lock_frame>>

\* Lines 384-386 and 444-446: a valid entry is returned from inside the
\* block; otherwise the block falls through to the fetch.
LockCheck(t) ==
    /\ lk_pc[t] = "locked"
    /\ cache_lock = t
    /\ lk_block[t] \in {"chan_check", "epg_check"}
    /\ IF BlockKey(lk_block[t]) \in lk_valid
       THEN /\ LockProceed(t, lk_todo[t])
            /\ cache_lock' = LockAfterBlock(t, FALSE)
       ELSE /\ lk_pc' = [lk_pc EXCEPT ![t] = "fetch"]
            /\ cache_lock' = LockAfterBlock(t, TRUE)
            /\ UNCHANGED <<lk_block, lk_todo>>
    /\ UNCHANGED <<lk_valid, lock_frame>>

\* Lines 388-425 and 448-465: the provider calls end; the thread reaches the
\* with statement of the install block, or the sort raises and the handler
\* ends (line 425).
LockFetchEnds(t, raises) ==
    /\ lk_pc[t] = "fetch"
    /\ IF raises
       THEN /\ lk_block[t] = "chan_check"
            /\ LockProceed(t, <<>>)
       ELSE /\ lk_pc' = [lk_pc EXCEPT ![t] = "want"]
            /\ lk_block' = [lk_block EXCEPT ![t] =
                   IF lk_block[t] = "chan_check" THEN "chan_install" ELSE "epg_install"]
            /\ UNCHANGED lk_todo
    /\ UNCHANGED <<cache_lock, lk_valid, lock_frame>>

\* Lines 428-430 and 468-470: the value is installed with its expiry.
LockInstall(t) ==
    /\ lk_pc[t] = "locked"
    /\ cache_lock = t
    /\ lk_block[t] \in {"chan_install", "epg_install"}
    /\ lk_valid' = lk_valid \cup {BlockKey(lk_block[t])}
    /\ LockProceed(t, lk_todo[t])
    /\ cache_lock' = LockAfterBlock(t, FALSE)
    /\ UNCHANGED lock_frame

\* Lines 709-712 and 723-726: the three maps are cleared.
LockClear(t) ==
    /\ lk_pc[t] = "locked"
    /\ cache_lock = t
    /\ lk_block[t] = "clear"
    /\ lk_valid' = {}
    /\ LockProceed(t, lk_todo[t])
    /\ cache_lock' = LockAfterBlock(t, FALSE)
    /\ UNCHANGED lock_frame

\* Lines 242-260: the refresher computes the two ages under the lock and,
\* outside it, fetches what is old.  Lines 624-631: /debug reads the maps.
LockRead(t, channels_needs_refresh, epg_needs_refresh) ==
    /\ lk_pc[t] = "locked"
    /\ cache_lock = t
    /\ lk_block[t] \in {"age_check", "debug"}
    /\ IF lk_block[t] = "age_check"
       THEN LockProceed(t, (IF channels_needs_refresh THEN <<"channels">> ELSE <<>>)
                           \o (IF epg_needs_refresh THEN <<"epg">> ELSE <<>>))
       ELSE /\ ~channels_needs_refresh
            /\ ~epg_needs_refresh
            /\ LockProceed(t, lk_todo[t])
    /\ cache_lock' = LockAfterBlock(t, FALSE)
    /\ UNCHANGED <<lk_valid, lock_frame>>

\* time.time() passes the expiry of a cached key.
LockExpire(key) ==
    /\ key \in lk_valid
    /\ lk_valid' = lk_valid \ {key}
    /\ UNCHANGED <<cache_lock, lk_pc, lk_block, lk_todo, lock_frame>>

LockInit ==
    /\ filters = NoFilters
    /\ AggCore([t \in Threads |-> {}])
    /\ providers = Providers
    /\ WarmerOff
    /\ hung = {}
    /\ distro_feed = <<>>
    /\ AlarmIdle
    /\ LockIdle
    /\ FallbackIdle
    /\ PipelineIdle
    /\ ExtIdle

LockNext ==
    \/ \E t \in Threads, plan \in LockPlans : LockCall(t, plan)
    \/ \E t \in Threads : LockAcquire(t)
    \/ \E t \in Threads : LockCheck(t)
    \/ \E t \in Threads, raises \in BOOLEAN : LockFetchEnds(t, raises)
    \/ \E t \in Threads : LockInstall(t)
    \/ \E t \in Threads : LockClear(t)
    \/ \E t \in Threads, c \in BOOLEAN, e \in BOOLEAN : LockRead(t, c, e)
    \/ \E key \in {"all_channels", "all_epg"} : LockExpire(key)

SpecLock == LockInit /\ [][LockNext]_vars

\* C25: no thread holds the cache lock while its provider calls are in
\* flight; the lock is held only inside a with block that tests and reads,
\* installs, or clears, so a thread at a check block waits at most for such
\* a block and never for another thread's fetch.
C25_LockScope ==
    /\ \A t \in Threads : lk_pc[t] = "fetch" => cache_lock # t
    /\ cache_lock # "" => lk_pc[cache_lock] = "locked"

\* One thread waits at its validity test while the other is fetching, and
\* the lock is free for it.
C25_Witness ==
    \E t \in Threads, u \in Threads :
        /\ t # u
        /\ lk_pc[t] = "fetch"
        /\ lk_pc[u] = "want"
        /\ lk_block[u] \in {"chan_check", "epg_check"}
        /\ cache_lock = ""


\* ---------------------------------------------------------------------------
\* The download cache of the EPG Fallback Manager
\* (src/utils/epg_fallback.py 19-22, 72-110) as StirrProvider.get_epg_data
\* uses it (src/providers/stirr_provider.py 370-381).
\* ---------------------------------------------------------------------------

\* self.cache_duration = 3600, in ticks of the model's clock.
FB_CACHE_DURATION == 3

\* cache_key = f"{source_name}_{provider_name}"
FallbackCacheKey(source_name, provider_name) == source_name \o "_" \o provider_name

\* EPGFallbackManager(): self.cache = {} and self.cache_expiry = {}.
EPGFallbackManager == <<EmptyDict, EmptyDict>>

\* The test of lines 76-79 on a manager's two maps.
FallbackCacheHit(cache, expiry, cache_key) ==
    /\ cache_key \in DOMAIN cache
    /\ cache_key \in DOMAIN expiry
    /\ now < expiry[cache_key]

\* What the download and _parse_xmltv can yield: an exception (nothing is
\* cached), or a parsed guide, possibly empty.
DownloadOutcomes ==
    {[raises |-> TRUE, epg |-> EmptyDict],
     [raises |-> FALSE, epg |-> EmptyDict],
     [raises |-> FALSE, epg |-> ("c1" :> <<"p1">>)]}

\* _fetch_source_epg on the manager whose maps are cache and expiry.
_fetch_source_epg(cache, expiry, source_name, provider_name, outcome) ==
    LET cache_key == FallbackCacheKey(source_name, provider_name) IN
    /\ g_fb_prev' = g_fb_parsed[cache_key]
    /\ IF FallbackCacheHit(cache, expiry, cache_key)
       THEN /\ fb_call' = <<cache_key, "cache", now>>
            /\ fb_cache' = cache
            /\ fb_cache_expiry' = expiry
            /\ UNCHANGED g_fb_parsed
       ELSE IF outcome.raises
       THEN /\ fb_call' = <<cache_key, "failed", now>>
            /\ fb_cache' = cache
            /\ fb_cache_expiry' = expiry
            /\ UNCHANGED g_fb_parsed
       ELSE /\ fb_call' = <<cache_key, "download", now>>
            /\ fb_cache' = DictSet(cache, cache_key, outcome.epg)
            /\ fb_cache_expiry' = DictSet(expiry, cache_key, now + FB_CACHE_DURATION)
            /\ g_fb_parsed' = [g_fb_parsed EXCEPT ![cache_key] = now]

\* StirrProvider.get_epg_data when the native guide is empty: lines 372-376
\* construct a manager and ask it for 'stirr', which only the mjh tier lists.
StirrGetEpgData(outcome) ==
    /\ "stirr" \in fallback_sources(TierOrder[1])
    /\ \A i \in 2..Len(TierOrder) : "stirr" \notin fallback_sources(TierOrder[i])
    /\ _fetch_source_epg(EPGFallbackManager[1], EPGFallbackManager[2], TierOrder[1],
                         "stirr", outcome)
    /\ UNCHANGED <<filters, providers, warm_cache_on_startup, warm_epg_on_startup, warmer,
                   hung, distro_feed, alarm_vars, lock_vars, agg_vars, pl_vars, ext_vars>>

StirrEpgInit ==
    /\ filters = NoFilters
    /\ AggCore([t \in Threads |-> {}])
    /\ SvcIdle
    /\ PipelineIdle
    /\ ExtIdle

StirrEpgNext ==
    \/ \E outcome \in DownloadOutcomes : StirrGetEpgData(outcome)
    \/ Tick

SpecStirrEpg == StirrEpgInit /\ [][StirrEpgNext]_vars

\* C26: a fallback request for a tier+provider pair whose guide was
\* downloaded and parsed less than 3600 seconds earlier is served from the
\* cache: it neither downloads again nor attempts to.
C26_FallbackServedFromCache ==
    (fb_call[2] \in {"download", "failed"} /\ g_fb_prev # -1)
        => fb_call[3] - g_fb_prev >= FB_CACHE_DURATION


\* ---------------------------------------------------------------------------
\* The list stored under 'all_channels' (src/app.py 403-430, 308-325) when
\* the provider results are taken as they reach the aggregator: any dicts,
\* blank names, empty URLs, cross-provider duplicates and a 'provider' key
\* of the provider's own included.
\* ---------------------------------------------------------------------------

RawXumoTest ==
    Channel("xumo-1", TxtTest, "http://s", "http://l", TxtNews, PyInt(5), "", NoKey)

RawXumoBlank ==
    Channel("xumo-2", TxtBlank, "http://s", "", TxtNews, NoKey, "", NoKey)

\* The same station as RawXumoTest under the deduplication key, with a
\* 'provider' value of its own.
RawTubiTest ==
    Channel("tubi-1", TxtTestPadded, "http://s", "", TxtAdult, NoKey, "upstream", NoKey)

RawTubiNoUrl ==
    Channel("tubi-2", TxtBee, "", "", TxtNews, NoKey, "", NoKey)

RawTubiBee ==
    Channel("tubi-3", TxtBee, "http://s2", "", TxtNews, NoKey, "", NoKey)

\* What future.result() of _fetch_provider_channels can hand to the loop of
\* lines 403-418.
RawChannelOutcomes(p) ==
    IF p = "xumo"
    THEN {[channels |-> <<>>, raises |-> TRUE],
          [channels |-> <<RawXumoTest, RawXumoBlank>>, raises |-> FALSE]}
    ELSE {[channels |-> <<>>, raises |-> FALSE],
          [channels |-> <<RawTubiTest, RawTubiNoUrl, RawTubiBee>>, raises |-> FALSE]}

CachedListRoutes ==
    [t \in Threads |-> IF t = "t1" THEN {"/channels", "/refresh"} ELSE {"/clear_cache"}]

CachedListInit ==
    /\ filters \in {NoFilters, [NoFilters EXCEPT !.group_exclude = <<"a", "d", "u", "l", "t">>]}
    /\ AggInit(CachedListRoutes)
    /\ PipelineIdle
    /\ ExtIdle

CachedListNext ==
    \/ \E t \in Threads, r \in Routes : BeginRequest(t, r)
    \/ \E t \in Threads : CheckChannelsCache(t)
    \/ \E t \in Threads, p \in Providers :
          \E o \in RawChannelOutcomes(p) : ProviderCompletes(t, p, o)
    \/ \E t \in Threads : FinishChannels(t)
    \/ \E t \in Threads : CheckEpgCache(t)
    \/ \E t \in Threads, p \in Providers : \E o \in EpgOutcomes(p) : EpgProviderCompletes(t, p, o)
    \/ \E t \in Threads : FinishEpg(t)
    \/ \E t \in Threads : ClearCaches(t)
    \/ \E t \in Threads : Respond(t)
    \/ \E t \in Threads : EndRequest(t)
    \/ Tick

SpecCachedList == CachedListInit /\ [][CachedListNext]_vars

\* Provider p can return a channel with the id, name and stream_url of c.
ReturnedBy(p, c) ==
    /\ p \in Providers
    /\ \E o \in RawChannelOutcomes(p) : \E k \in 1..Len(o.channels) :
          /\ o.channels[k].id = c.id
          /\ o.channels[k].name = c.name
          /\ o.channels[k].stream_url = c.stream_url

\* C27: every channel of the list cached under 'all_channels' has a name
\* that is non-empty after trimming and a non-empty stream_url, its provider
\* field is the key of the provider that returned it, and no two channels
\* of the list have the same (name.lower().strip(), stream_url) key.
C27_CachedListInvariant ==
    "all_channels" \in DOMAIN channels_cache =>
        LET cached == channels_cache["all_channels"] IN
        /\ \A i \in 1..Len(cached) :
              /\ Strip(cached[i].name) # <<>>
              /\ cached[i].stream_url # ""
              /\ ReturnedBy(cached[i].provider, cached[i])
        /\ \A i \in 1..Len(cached), j \in 1..Len(cached) :
              i # j => NormKey(cached[i]) # NormKey(cached[j])

\* A cycle in which both providers returned everything they can (a blank
\* name, an empty URL and a cross-provider duplicate among the five
\* channels) has installed a list of two channels of different providers.
C27_Witness ==
    /\ "all_channels" \in DOMAIN channels_cache
    /\ \E t \in Threads :
          /\ pc[t] = "chan_ret"
          /\ chan_ret[t].state = "ok"
          /\ chan_ret[t].value = channels_cache["all_channels"]
          /\ \A i \in 1..Len(g_log[t]) : Len(g_log[t][i].channels) >= 2
          /\ Len(g_log[t]) = 2
          /\ Len(chan_ret[t].value) = 2
          /\ chan_ret[t].value[1].provider # chan_ret[t].value[2].provider


\* ---------------------------------------------------------------------------
\* The three cache maps (src/app.py 384-386, 427-430, 444-446, 467-470,
\* 706-726, 242-260) under requests for /epg, /clear_cache and /refresh on
\* one thread and the background refresher on the other.  The clock stands
\* still: an entry leaves the maps by a clear, and the refresher fetches
\* what is missing.
\* ---------------------------------------------------------------------------

CacheMapsRoutes ==
    [t \in Threads |-> IF t = "t1" THEN {"/epg", "/clear_cache", "/refresh"}
                       ELSE {"background_refresher"}]

CacheMapsInit ==
    /\ filters = NoFilters
    /\ AggInit(CacheMapsRoutes)
    /\ PipelineIdle
    /\ ExtIdle

CacheMapsNext ==
    \/ \E t \in Threads, r \in Routes : BeginRequest(t, r)
    \/ \E t \in Threads : BackgroundCheck(t)
    \/ \E t \in Threads : CheckChannelsCache(t)
    \/ \E t \in Threads, p \in Providers : \E o \in ChannelOutcomes(p) : ProviderCompletes(t, p, o)
    \/ \E t \in Threads : FinishChannels(t)
    \/ \E t \in Threads : CheckEpgCache(t)
    \/ \E t \in Threads, p \in Providers : \E o \in EpgOutcomes(p) : EpgProviderCompletes(t, p, o)
    \/ \E t \in Threads : FinishEpg(t)
    \/ \E t \in Threads : ClearCaches(t)
    \/ \E t \in Threads : Respond(t)
    \/ \E t \in Threads : EndRequest(t)
    \/ \E t \in Threads : BackgroundSleep(t)

SpecCacheMaps == CacheMapsInit /\ [][CacheMapsNext]_vars

\* C28: with the cache lock free, 'all_channels' is a key of the expiry map
\* only if it is a key of the channel cache, 'all_epg' only if it is a key
\* of the EPG cache, and no lookup after a successful validity test has
\* raised KeyError.
C28_CacheMapsConsistent ==
    /\ "all_channels" \in DOMAIN cache_expiry => "all_channels" \in DOMAIN channels_cache
    /\ "all_epg" \in DOMAIN cache_expiry => "all_epg" \in DOMAIN epg_cache
    /\ \A t \in Threads : chan_ret[t].exc # "KeyError" /\ epg_ret[t].exc # "KeyError"

\* The refresher has installed the guide after a /refresh cleared the maps
\* during its fan-out, and the request thread is about to test validity.
C28_Witness ==
    \E t \in Threads, u \in Threads :
        /\ route[t] = "background_refresher"
        /\ pc[t] = "epg_ret"
        /\ g_preclear[t] # {}
        /\ route[u] = "/refresh"
        /\ pc[u] \in {"chan_check", "epg_check"}
        /\ "all_epg" \in DOMAIN cache_expiry


\* ---------------------------------------------------------------------------
\* An empty channel list in the cache (src/app.py 380-434, 275-278).
\* ---------------------------------------------------------------------------

\* Every provider's future has been consumed and none contributed a channel.
NoContribution(log) ==
    /\ {log[i].provider : i \in 1..Len(log)} = Providers
    /\ \A i \in 1..Len(log) : _fetch_provider_channels(log[i]) = <<>>

\* The step of lines 420-434 by thread t.
InstallStep(t) == pc[t] = "chan_fanout" /\ pending[t] = {} /\ pc'[t] = "chan_ret"

\* C29: a fetch cycle in which no provider contributes a channel installs
\* the empty list under 'all_channels' with expiry now + CACHE_DURATION and
\* returns it; a channel request that finds the empty list cached before its
\* expiry returns the empty list and calls no provider.
C29_EmptyResultCached ==
    /\ [][\A t \in Threads :
            (InstallStep(t) /\ NoContribution(g_log[t])) =>
                /\ "all_channels" \in DOMAIN channels_cache'
                /\ channels_cache'["all_channels"] = <<>>
                /\ "all_channels" \in DOMAIN cache_expiry'
                /\ cache_expiry'["all_channels"] = now + CACHE_DURATION
                /\ chan_ret'[t] = [value |-> <<>>, state |-> "ok", exc |-> ""]]_vars
    /\ [](\A t \in Threads :
            (/\ g_check[t].done
             /\ g_check[t].present
             /\ g_check[t].cached = <<>>
             /\ g_check[t].at < g_check[t].installed + CACHE_DURATION) =>
                /\ g_check[t].hit
                /\ chan_ret[t] = [value |-> <<>>, state |-> "ok", exc |-> ""]
                /\ g_log[t] = <<>>
                /\ pending[t] = {})

\* A request made after the install of an empty list, and before its
\* expiry, has returned the empty list from the cache.
C29_Witness ==
    \E t \in Threads :
        /\ g_check[t].done
        /\ g_check[t].present
        /\ g_check[t].cached = <<>>
        /\ g_check[t].at > g_check[t].installed
        /\ g_check[t].hit
        /\ pc[t] = "chan_ret"
        /\ cache_expiry["all_channels"] = g_check[t].installed + CACHE_DURATION


\* ---------------------------------------------------------------------------
\* The /epg document (src/app.py 519-578) with a provider that has guide
\* data: DistroTVProvider (src/providers/distrotv_provider.py 56-212).  A
\* show of the feed is <<name, title, stream url, genre, slots>>; both
\* get_channels and get_epg_data read the feed _load_feed keeps for 12 hours.
\* ---------------------------------------------------------------------------

ShowNews == <<"news", TxtNews, "http://s", TxtNews, <<"p1">>>>

ShowAdult == <<"adult", TxtAdult, "http://s2", TxtAdult, <<"p2">>>>

\* A show whose first episode has no content url.
ShowNoUrl == <<"bee", TxtBee, "", TxtNews, <<"p3">>>>

\* A show for which the EPG query returns no slot.
ShowNoSlots == <<"test", TxtTestPadded, "http://s3", <<>>, <<>>>>

DistroFeeds ==
    {<<>>, <<ShowNews>>, <<ShowNews, ShowAdult>>, <<ShowNews, ShowNoUrl>>,
     <<ShowNoSlots, ShowNews>>}

\* Lines 64-106 for one show: the channel, or nothing when the url, the
\* name or the stripped title is empty.
DistroChannel(show) ==
    IF show[3] = "" \/ show[1] = "" \/ Strip(show[2]) = <<>> THEN <<>>
    ELSE LET channel == Channel("distrotv-" \o show[1], Strip(show[2]), show[3], "",
                                IF show[4] # <<>> THEN show[4]
                                ELSE <<"D", "i", "s", "t", "r", "o", "T", "V">>,
                                NoKey, "", NoKey)
         IN  IF validate_channel(channel) THEN <<normalize_channel(channel)>> ELSE <<>>

\* DistroTVProvider.get_channels over the shows of the feed.
RECURSIVE distrotv_get_channels(_)
distrotv_get_channels(shows) ==
    IF shows = <<>> THEN <<>>
    ELSE DistroChannel(Head(shows)) \o distrotv_get_channels(Tail(shows))

\* DistroTVProvider.get_epg_data: lines 128-147 keep every show with an
\* episode id and a name, lines 162-205 store its programmes, when it has
\* any, under "distrotv-<name>".
RECURSIVE distrotv_get_epg_data(_)
distrotv_get_epg_data(shows) ==
    IF shows = <<>> THEN EmptyDict
    ELSE LET show == Head(shows)
             rest == distrotv_get_epg_data(Tail(shows))
         IN  IF show[1] # "" /\ show[5] # <<>>
             THEN DictSet(rest, "distrotv-" \o show[1], show[5])
             ELSE rest

EpgXmlRoutes == [t \in Threads |-> IF t = "t1" THEN {"/epg"} ELSE {}]

\* ENABLED_PROVIDERS=distrotv
EpgXmlInit ==
    /\ filters \in {NoFilters, [NoFilters EXCEPT !.group_exclude = <<"a", "d", "u", "l", "t">>]}
    /\ AggCore(EpgXmlRoutes)
    /\ providers = {"distrotv"}
    /\ WarmerOff
    /\ hung = {}
    /\ distro_feed \in DistroFeeds
    /\ AlarmIdle
    /\ LockIdle
    /\ FallbackIdle
    /\ PipelineIdle
    /\ ExtIdle

EpgXmlNext ==
    \/ \E t \in Threads, r \in Routes : BeginRequest(t, r)
    \/ \E t \in Threads : CheckChannelsCache(t)
    \/ \E t \in Threads :
          ProviderCompletes(t, "distrotv",
              [channels |-> distrotv_get_channels(distro_feed), raises |-> FALSE])
    \/ \E t \in Threads : FinishChannels(t)
    \/ \E t \in Threads : CheckEpgCache(t)
    \/ \E t \in Threads :
          EpgProviderCompletes(t, "distrotv",
              [raises |-> FALSE, epg |-> distrotv_get_epg_data(distro_feed)])
    \/ \E t \in Threads : FinishEpg(t)
    \/ \E t \in Threads : Respond(t)
    \/ \E t \in Threads : EndRequest(t)

SpecEpgXml == EpgXmlInit /\ [][EpgXmlNext]_vars

\* Every programme element of the document names a channel element of it.
ProgrammesReferToChannels(document) ==
    \A channel_id \in DOMAIN document.programmes :
        document.programmes[channel_id] # <<>> =>
            \E i \in 1..Len(document.channels) : document.channels[i].id = channel_id

\* C30: in every document /epg produces, the channel attribute of each
\* programme element is the id of a channel element of the same document.
C30_XmltvReferentialIntegrity ==
    \A t \in Threads :
        (pc[t] = "responded" /\ route[t] = "/epg" /\ response[t].status = 200) =>
            ProgrammesReferToChannels(response[t].body)

====
